---- MODULE Spec2Model ----
(***************************************************************************)
(* A model of vtsaggregator.py: the time-series store, the zone parser,    *)
(* the zone aggregator, the metrics projector, checkpoint load/save and    *)
(* the scrape loop of run_vtsaggregator.                                   *)
(*                                                                         *)
(* Representation of the program's numbers                                 *)
(*  - A Python int that is a counter value is a record [hi, lo] that       *)
(*    stands for hi * 2^52 + lo, with lo small in absolute value.  The     *)
(*    overflow limit 1 << 52 is [hi |-> 1, lo |-> 0]; sums, differences,   *)
(*    comparisons and the reduction below the limit are exact on this      *)
(*    form.  Where the program computes with such an int in floats, the    *)
(*    model takes it to the form [neg, nat] (VInt), whose nat is the       *)
(*    sequence of the digits of the absolute value.                        *)
(*  - A Python float is an IEEE 754 double [neg, man, exp]; every          *)
(*    operation on floats gives the double the program gets, rounded to    *)
(*    the nearest, ties to the even mantissa.  The values of the series    *)
(*    response_duration_sum are such floats.                               *)
(*  - A time (time.time(), nowMsec / 1000, the t of a sample, t_prev) and  *)
(*    a bucket edge le are floats that the program never computes with     *)
(*    before it stores them; the model names such a float by its number    *)
(*    of milliseconds, an integer: 60000 is the float nearest to           *)
(*    60000 / 1000 (Seconds).  Where the program computes with it, the     *)
(*    double is taken.                                                     *)
(*  - An output number is an integer; a rate is kept in hundredths (1.66   *)
(*    is 166: int(rate * 100), which the program then divides by 100).     *)
(*    Python's None is the integer None.  An output number of 2^31 or      *)
(*    more is Huge.                                                        *)
(***************************************************************************)
EXTENDS Integers, Sequences, FiniteSets, TLC

VARIABLES
    test_mode,      \* args.test_mode
    args,           \* args.urls and args.test_limit
    iteration_order, \* the order in which this process iterates each set
                    \* of zone names it has iterated so far
    clock,          \* time.time(), in ms
    t_next,         \* run_vtsaggregator's t_next, in ms
    step,           \* run_vtsaggregator's step
    pc,             \* where run_vtsaggregator is
    timeseries,     \* State._timeseries: the dict
    histograms,     \* State._histograms: the dict
    t_prev,         \* State._t_prev, in ms (-1000 is the initial -1.0)
    ms_file,        \* the --milliseconds file on disk
    ms_tmp,         \* its '.tmp' sibling
    ckpt_file,      \* the --checkpoint file on disk
    ckpt_tmp,       \* its '.tmp' sibling
    log,            \* the kinds of log entries written by the last step
    inflight,       \* aggregate_backend_data's locals between its steps
    ticks,          \* history: what each loop iteration was given and did
    versions,       \* history: the texts a write of each file has begun with
    restarts,       \* history: number of process restarts so far
    pq              \* the percentile query of SpecPercentiles

vars == <<test_mode, args, iteration_order, clock, t_next, step, pc, timeseries, histograms,
          t_prev, ms_file, ms_tmp, ckpt_file, ckpt_tmp, log, inflight, ticks,
          versions, restarts, pq>>

(***************************************************************************)
(* Numbers                                                                 *)
(***************************************************************************)

\* Python's None, where the program returns a number or None.
None == -1

\* A difference of two counters that is too large to be a plain integer of
\* the model: one whose hi part is not 0, a number within the model's lo
\* range of a multiple of 2^52.
Huge == -2

\* The Python int n of a counter.  An int is held as [hi, lo] and stands for
\* hi * 2^52 + lo, so that the counters near the overflow limit have a form.
V(n) == [hi |-> 0, lo |-> n]

\* a + b for two Python ints, which is exact.  A sum with a float operand
\* is Plus, which rounds.
VAdd(a, b) == [hi |-> a.hi + b.hi, lo |-> a.lo + b.lo]

\* a - b for two Python ints, which is exact.  A difference with a float
\* operand is Minus, which rounds.
VSub(a, b) == [hi |-> a.hi - b.hi, lo |-> a.lo - b.lo]

VIsNeg(a) == a.hi < 0 \/ (a.hi = 0 /\ a.lo < 0)

\* value >= overflow_limit for an int, with overflow_limit = 1 << 52
VGeLimit(a) == a.hi > 1 \/ (a.hi = 1 /\ a.lo >= 0)

\* value & (overflow_limit - 1) for an int value >= 0
VMask(a) ==
    IF a.lo >= 0 THEN [hi |-> 0, lo |-> a.lo] ELSE [hi |-> 1, lo |-> a.lo]

Max(a, b) == IF a >= b THEN a ELSE b

\* The function f as the table of its values: a value that is read several
\* times is computed once.
Table(f) == f @@ <<>>

\* Body of the value: the value is computed once, before Body reads it.
With(value, Body(_)) == CASE {value} # {} -> Body(value)

Min(a, b) == IF a <= b THEN a ELSE b

(***************************************************************************)
(* Python's int and float.                                                 *)
(***************************************************************************)

\* The base of the limbs of a natural number: a natural number is the
\* sequence of its digits to this base, lowest first, without leading zeros.
Base == 2^13



NatLimb(x, i) == IF i <= Len(x) THEN x[i] ELSE 0

RECURSIVE NatTrim(_)
NatTrim(x) ==
    IF Len(x) = 0 \/ x[Len(x)] # 0 THEN x ELSE NatTrim(SubSeq(x, 1, Len(x) - 1))

\* The natural number of a plain integer n >= 0
RECURSIVE NatOf(_)
NatOf(n) == IF n = 0 THEN <<>> ELSE <<n % Base>> \o NatOf(n \div Base)

\* -1, 0, 1 as x < y, x = y, x > y
RECURSIVE NatCmpAt(_, _, _)
NatCmpAt(x, y, i) ==
    IF i = 0 THEN 0
    ELSE IF x[i] > y[i] THEN 1
    ELSE IF x[i] < y[i] THEN -1
    ELSE NatCmpAt(x, y, i - 1)

NatCmp(x, y) ==
    IF Len(x) > Len(y) THEN 1
    ELSE IF Len(x) < Len(y) THEN -1
    ELSE NatCmpAt(x, y, Len(x))

RECURSIVE NatAddAt(_, _, _, _)
NatAddAt(x, y, i, carry) ==
    IF i > Len(x) /\ i > Len(y) THEN (IF carry = 0 THEN <<>> ELSE <<carry>>)
    ELSE LET s == NatLimb(x, i) + NatLimb(y, i) + carry
         IN  <<s % Base>> \o NatAddAt(x, y, i + 1, s \div Base)

NatAdd(x, y) == NatAddAt(x, y, 1, 0)

\* x - y for x >= y
RECURSIVE NatSubAt(_, _, _, _)
NatSubAt(x, y, i, borrow) ==
    IF i > Len(x) THEN <<>>
    ELSE LET s == x[i] - NatLimb(y, i) - borrow
         IN  <<s % Base>> \o NatSubAt(x, y, i + 1, IF s < 0 THEN 1 ELSE 0)

NatSub(x, y) == NatTrim(NatSubAt(x, y, 1, 0))

\* x * k for a plain integer 0 <= k < 2^17
RECURSIVE NatMulSmallAt(_, _, _, _)
NatMulSmallAt(x, k, i, carry) ==
    IF i > Len(x) THEN NatOf(carry)
    ELSE LET s == x[i] * k + carry
         IN  <<s % Base>> \o NatMulSmallAt(x, k, i + 1, s \div Base)

NatMulSmall(x, k) == IF k = 0 THEN <<>> ELSE NatMulSmallAt(x, k, 1, 0)

\* x * Base^n
NatLimbs(x, n) == IF Len(x) = 0 THEN x ELSE [i \in 1..n |-> 0] \o x

RECURSIVE NatMul(_, _)
NatMul(x, y) ==
    IF Len(y) = 0 THEN <<>>
    ELSE IF Len(y) = 1 THEN NatMulSmall(x, y[1])
    ELSE IF Len(x) < Len(y) THEN NatMul(y, x)
    ELSE NatAdd(NatMulSmall(x, y[1]), NatLimbs(NatMul(x, Tail(y)), 1))

RECURSIVE BitLength(_)
BitLength(n) ==
    IF n = 0 THEN 0
    ELSE IF n >= 256 THEN 8 + BitLength(n \div 256)
    ELSE IF n >= 16 THEN 4 + BitLength(n \div 16)
    ELSE 1 + BitLength(n \div 2)

\* int.bit_length()
NatBitLength(x) ==
    IF Len(x) = 0 THEN 0 ELSE 13 * (Len(x) - 1) + BitLength(x[Len(x)])

\* x << k
NatShl(x, k) ==
    IF k % 13 = 0 THEN NatLimbs(x, k \div 13)
    ELSE NatLimbs(NatMulSmall(x, 2^(k % 13)), k \div 13)

\* x >> k
NatShr(x, k) ==
    LET a == k \div 13
        b == k % 13
        y == IF a >= Len(x) THEN <<>> ELSE SubSeq(x, a + 1, Len(x))
    IN  IF b = 0 THEN y
        ELSE NatTrim(SubSeq([i \in 1..Len(y) |->
                                (y[i] \div 2^b) + (NatLimb(y, i + 1) % 2^b) * 2^(13 - b)],
                            1, Len(y)))

\* x & ((1 << k) - 1)
NatLow(x, k) ==
    LET a == k \div 13
        b == k % 13
    IN  IF a >= Len(x) THEN x
        ELSE NatTrim(SubSeq(x, 1, a) \o <<x[a + 1] % 2^b>>)

\* The number of zero bits below the lowest one bit of x # 0
RECURSIVE NatTrailingZeros(_)
NatTrailingZeros(x) ==
    IF x[1] = 0 THEN 13 + NatTrailingZeros(Tail(x))
    ELSE IF x[1] % 2 = 1 THEN 0
    ELSE 1 + NatTrailingZeros(<<x[1] \div 2>>)

\* divmod(x, d) for a plain integer 0 < d < 2^17: limb i of x and below
\* are still to divide, rest is what the limbs above have left.
RECURSIVE NatDivSmallAt(_, _, _, _, _)
NatDivSmallAt(x, d, i, rest, quotient) ==
    IF i = 0 THEN [q |-> NatTrim(quotient), r |-> NatOf(rest)]
    ELSE LET s == rest * Base + x[i]
         IN  NatDivSmallAt(x, d, i - 1, s % d, <<s \div d>> \o quotient)

\* One step of the long division by y, whose highest limb is at least
\* Base / 2: the digit of the quotient for the rest r and what it leaves.
\* The estimate from the highest limbs is at most 2 too large.
RECURSIVE NatDigit(_, _, _)
NatDigit(r, y, guess) ==
    With(NatMulSmall(y, guess), LAMBDA product :
        IF NatCmp(product, r) > 0 THEN NatDigit(r, y, guess - 1)
        ELSE [digit |-> guess, rest |-> NatSub(r, product)])

\* Limb i of x and below are still to divide, rest is what the limbs above
\* have left.
RECURSIVE NatDivAt(_, _, _, _, _)
NatDivAt(x, y, i, rest, quotient) ==
    IF i = 0 THEN [q |-> NatTrim(quotient), r |-> rest]
    ELSE With(NatTrim(<<x[i]>> \o rest), LAMBDA r :
         With(NatLimb(r, Len(y) + 1) * Base + NatLimb(r, Len(y)), LAMBDA top :
         With(NatDigit(r, y, IF top \div y[Len(y)] >= Base THEN Base - 1
                             ELSE top \div y[Len(y)]), LAMBDA found :
             NatDivAt(x, y, i - 1, found.rest, <<found.digit>> \o quotient))))

\* divmod(x, y) for y # 0: [q, r].  The long division starts below the
\* Len(y) - 1 highest limbs of x, which are less than y.
NatDivMod(x, y) ==
    IF Len(y) = 1 THEN NatDivSmallAt(x, y[1], Len(x), 0, <<>>)
    ELSE IF Len(x) < Len(y) THEN [q |-> <<>>, r |-> x]
    ELSE With(13 - BitLength(y[Len(y)]), LAMBDA s :
         With(NatShl(x, s), LAMBDA xs :
         With(NatDivAt(xs, NatShl(y, s), Len(xs) - Len(y) + 1,
                       SubSeq(xs, Len(xs) - Len(y) + 2, Len(xs)), <<>>), LAMBDA d :
             [q |-> d.q, r |-> NatShr(d.r, s)])))

\* A Python int is [neg, nat]: its sign and its absolute value; 0 has
\* neg = FALSE.
IntOf(n) == [neg |-> n < 0, nat |-> NatOf(IF n < 0 THEN -n ELSE n)]

IntNeg(a) == [neg |-> ~a.neg /\ Len(a.nat) # 0, nat |-> a.nat]

IntAdd(a, b) ==
    IF a.neg = b.neg THEN [neg |-> a.neg, nat |-> NatAdd(a.nat, b.nat)]
    ELSE With(NatCmp(a.nat, b.nat), LAMBDA cmp :
        IF cmp = 0 THEN [neg |-> FALSE, nat |-> <<>>]
        ELSE IF cmp > 0 THEN [neg |-> a.neg, nat |-> NatSub(a.nat, b.nat)]
        ELSE [neg |-> b.neg, nat |-> NatSub(b.nat, a.nat)])

IntSub(a, b) == IntAdd(a, IntNeg(b))

\* -1, 0, 1 as a < b, a = b, a > b
IntCmp(a, b) ==
    IF a.neg # b.neg THEN (IF a.neg THEN -1 ELSE 1)
    ELSE IF a.neg THEN NatCmp(b.nat, a.nat)
    ELSE NatCmp(a.nat, b.nat)

(***************************************************************************)
(* A Python float is an IEEE 754 double: [neg, man, exp] stands for        *)
(* (-1)^neg * man * 2^exp with man an odd natural number below 2^53, and   *)
(* 0.0 is [FALSE, <<>>, 0].  The arithmetic rounds to the nearest double,  *)
(* ties to the even mantissa.  Infinities, NaN, -0.0 and the subnormal     *)
(* numbers are not reached by the program's quantities and have no form.   *)
(***************************************************************************)

FZero == [neg |-> FALSE, man |-> <<>>, exp |-> 0]

\* The double nearest to (-1)^neg * (nat + s) * 2^exp, where 0 < s < 1 when
\* sticky and s = 0 otherwise; sticky only with nat of 55 bits and more.
FOdd(neg, nat, exp) ==
    With(NatTrailingZeros(nat), LAMBDA z :
        [neg |-> neg, man |-> IF z = 0 THEN nat ELSE NatShr(nat, z), exp |-> exp + z])

FRound(neg, nat, exp, sticky) ==
    IF Len(nat) = 0 THEN FZero
    ELSE With(NatBitLength(nat) - 53, LAMBDA drop :
        IF drop <= 0 THEN FOdd(neg, nat, exp)
        ELSE With(NatShr(nat, drop), LAMBDA kept :
             With(NatCmp(NatLow(nat, drop), NatShl(<<1>>, drop - 1)), LAMBDA half :
                 FOdd(neg,
                      IF half > 0 \/ (half = 0 /\ (sticky \/ kept[1] % 2 = 1))
                      THEN NatAdd(kept, <<1>>) ELSE kept,
                      exp + drop))))

\* float(n) for a Python int n
FOfInt(a) == FRound(a.neg, a.nat, 0, FALSE)

FNeg(a) == [neg |-> ~a.neg /\ Len(a.man) # 0, man |-> a.man, exp |-> a.exp]

\* a + b
FAdd(a, b) ==
    IF Len(a.man) = 0 THEN b
    ELSE IF Len(b.man) = 0 THEN a
    ELSE With(IntAdd([neg |-> a.neg, nat |-> NatShl(a.man, a.exp - Min(a.exp, b.exp))],
                     [neg |-> b.neg, nat |-> NatShl(b.man, b.exp - Min(a.exp, b.exp))]),
              LAMBDA s : FRound(s.neg, s.nat, Min(a.exp, b.exp), FALSE))

\* a - b
FSub(a, b) == FAdd(a, FNeg(b))

\* a * b
FMul(a, b) == FRound(a.neg # b.neg, NatMul(a.man, b.man), a.exp + b.exp, FALSE)

\* The double nearest to (-1)^neg * x / y * 2^exp for natural numbers x and
\* y # 0
FQuotient(neg, x, y, exp) ==
    IF Len(x) = 0 THEN FZero
    ELSE With(Max(55 + NatBitLength(y) - NatBitLength(x), 0), LAMBDA k :
         With(NatDivMod(NatShl(x, k), y), LAMBDA d :
             FRound(neg, d.q, exp - k, Len(d.r) # 0)))

\* a / b for floats, b # 0.0
FDiv(a, b) == FQuotient(a.neg # b.neg, a.man, b.man, a.exp - b.exp)

\* a / b for Python ints, b # 0: the true division, correctly rounded
IntTrueDiv(a, b) == FQuotient(a.neg # b.neg, a.nat, b.nat, 0)

\* -1, 0, 1 as a < b, a = b, a > b
FCmp(a, b) ==
    IntCmp([neg |-> a.neg, nat |-> NatShl(a.man, a.exp - Min(a.exp, b.exp))],
           [neg |-> b.neg, nat |-> NatShl(b.man, b.exp - Min(a.exp, b.exp))])

\* int(a): towards zero
FInt(a) ==
    With(IF a.exp >= 0 THEN NatShl(a.man, a.exp) ELSE NatShr(a.man, -a.exp),
         LAMBDA nat : [neg |-> a.neg /\ Len(nat) # 0, nat |-> nat])

\* round(a): to the nearest int, ties to the even one
FRoundInt(a) ==
    IF a.exp >= 0 THEN [neg |-> a.neg, nat |-> NatShl(a.man, a.exp)]
    ELSE With(NatShr(a.man, -a.exp), LAMBDA kept :
         With(NatCmp(NatLow(a.man, -a.exp), NatShl(<<1>>, -a.exp - 1)), LAMBDA half :
         With(IF half > 0 \/ (half = 0 /\ NatLimb(kept, 1) % 2 = 1)
              THEN NatAdd(kept, <<1>>) ELSE kept, LAMBDA nat :
             [neg |-> a.neg /\ Len(nat) # 0, nat |-> nat])))

\* math.fmod(a, 2^k) for a >= 0.0
FModPow2(a, k) ==
    IF a.exp >= k THEN FZero
    ELSE IF a.exp >= 0 THEN FRound(FALSE, NatLow(NatShl(a.man, a.exp), k), 0, FALSE)
    ELSE FRound(FALSE, NatLow(a.man, k - a.exp), a.exp, FALSE)

(***************************************************************************)
(* The numbers of a series: a value is a Python int [hi, lo] or a Python   *)
(* float [neg, man, exp].                                                  *)
(***************************************************************************)

IsFloat(value) == "man" \in DOMAIN value

\* The Python int of the counter value a = hi * 2^52 + lo
VInt(a) ==
    IntAdd([neg |-> a.hi < 0,
            nat |-> NatLimbs(NatOf(IF a.hi < 0 THEN -a.hi ELSE a.hi), 4)],
           IntOf(a.lo))

\* The plain integer of a Python int that is no negative number, Huge from
\* 2^31 on
IntNum(a) ==
    IF Len(a.nat) = 0 THEN 0
    ELSE IF Len(a.nat) = 1 THEN a.nat[1]
    ELSE IF Len(a.nat) = 2 THEN a.nat[1] + Base * a.nat[2]
    ELSE IF Len(a.nat) = 3 /\ a.nat[3] < 32
    THEN a.nat[1] + Base * a.nat[2] + Base * Base * a.nat[3]
    ELSE Huge

\* max(a, b) for Python ints
IntMax(a, b) == IF IntCmp(a, b) >= 0 THEN a ELSE b

\* float(value)
float(value) == IF IsFloat(value) THEN value ELSE FOfInt(VInt(value))

\* The float of a time or of a bucket edge that the model names by its
\* milliseconds: ms / 1000
Seconds(ms) == IntTrueDiv(IntOf(ms), IntOf(1000))

\* requestMsecCounter / 1000 for the counter a: the float nearest to the
\* quotient
FloatSeconds(a) == IntTrueDiv(VInt(a), IntOf(1000))

\* The float of a literal that is a whole number
Whole(n) == FOfInt(IntOf(n))

\* a + b for two values of a series
Plus(a, b) ==
    IF IsFloat(a) \/ IsFloat(b) THEN FAdd(float(a), float(b)) ELSE VAdd(a, b)

\* a - b for two values of a series
Minus(a, b) ==
    IF IsFloat(a) \/ IsFloat(b) THEN FSub(float(a), float(b)) ELSE VSub(a, b)

\* value < 0.0
IsNeg(value) == IF IsFloat(value) THEN value.neg ELSE VIsNeg(value)

\* value >= overflow_limit, with overflow_limit = 1 << 52
GeLimit(value) ==
    IF IsFloat(value) THEN FCmp(value, [neg |-> FALSE, man |-> <<1>>, exp |-> 52]) >= 0
    ELSE VGeLimit(value)

\* value < overflow_limit and value >= 0
VBelowLimit(value) == ~IsNeg(value) /\ ~GeLimit(value)

\* The number a diff is in the output: the plain integer of an int (Huge
\* when its hi part is not 0, a number within the model's lo range of a
\* multiple of 2^52), the float itself
VNum(a) == IF IsFloat(a) THEN a ELSE IF a.hi = 0 THEN a.lo ELSE Huge

(***************************************************************************)
(* TimeSeries: data is the deque(maxlen=2) of samples <<t, value>>.        *)
(***************************************************************************)

\* deque(maxlen=2).append
DequeAppend(data, x) ==
    IF Len(data) >= 2 THEN <<data[Len(data)], x>> ELSE Append(data, x)

\* TimeSeries.add(t, value): an int at or above the limit is masked, a float
\* is reduced with math.fmod
add(data, t, value) ==
    DequeAppend(data, <<t, IF ~GeLimit(value) THEN value
                           ELSE IF IsFloat(value) THEN FModPow2(value, 52)
                           ELSE VMask(value)>>)

\* TimeSeries.drop_everything_but_latest()
drop_everything_but_latest(data) ==
    IF Len(data) > 1 THEN <<data[Len(data)]>> ELSE data

\* sum that merges the oldest sample of other.
sum_oldest(data, other) ==
    IF Len(other) = 0 THEN data
    ELSE LET t_other == other[1][1]
             value_other == other[1][2]
         IN  IF Len(data) = 0 THEN add(data, t_other, value_other)
             ELSE LET t == data[Len(data)][1]
                  IN  IF t_other < t THEN data
                      ELSE IF t_other > t THEN add(data, t_other, value_other)
                      ELSE [data EXCEPT ![Len(data)] =
                                <<t, Plus(data[Len(data)][2], value_other)>>]

\* TimeSeries.sum(other): the new data of self
sum(data, other) ==
    IF Len(other) = 0 THEN data
    ELSE LET t_other == other[Len(other)][1]
             value_other == other[Len(other)][2]
         IN  IF Len(data) = 0 THEN add(data, t_other, value_other)
             ELSE LET t == data[Len(data)][1]
                  IN  IF t_other < t THEN data
                      ELSE IF t_other > t THEN add(data, t_other, value_other)
                      ELSE [data EXCEPT ![Len(data)] =
                                <<t, Plus(data[Len(data)][2], value_other)>>]

\* tdelta > (2.5 * interval) for tdelta = t_latest - t_prev, the difference
\* of the two floats.  The floats of two times below 2^31 ms and their
\* difference are each less than 2^-31 s off the exact numbers, so the
\* rounding decides only when the times are exactly 2.5 intervals apart.
GapTooLarge(t_latest, t_before, interval) ==
    IF 2 * (t_latest - t_before) # 5 * interval * 1000
    THEN 2 * (t_latest - t_before) > 5 * interval * 1000
    ELSE FCmp(FSub(Seconds(t_latest), Seconds(t_before)),
              FMul(IntTrueDiv(IntOf(5), IntOf(2)), Whole(interval))) > 0

\* What get_diff returns when it returns None
NoDiff(data) == [value |-> None, none |-> TRUE, diff |-> V(0), data |-> data]

\* get_diff that keeps both samples of a series whose counter went down.
get_diff_keep(data, interval, mutable) ==
    IF Len(data) < 2 THEN NoDiff(data)
    ELSE IF GapTooLarge(data[Len(data)][1], data[Len(data) - 1][1], interval)
    THEN NoDiff(data)
    ELSE IF IsNeg(Minus(data[Len(data)][2], data[Len(data) - 1][2]))
    THEN NoDiff(data)
    ELSE [value |-> VNum(Minus(data[Len(data)][2], data[Len(data) - 1][2])),
          none |-> FALSE,
          diff |-> Minus(data[Len(data)][2], data[Len(data) - 1][2]),
          data |-> data]

\* get_diff that takes a gap of exactly 2.5 intervals for too large.
get_diff_ge(data, interval, mutable) ==
    IF Len(data) < 2 THEN NoDiff(data)
    ELSE LET data_prev == data[Len(data) - 1]
             data_latest == data[Len(data)]
             diff == Minus(data_latest[2], data_prev[2])
         IN  IF GapTooLarge(data_latest[1], data_prev[1], interval)
                \/ 2 * (data_latest[1] - data_prev[1]) = 5 * interval * 1000
             THEN NoDiff(data)
             ELSE IF IsNeg(diff)
             THEN NoDiff(IF mutable THEN drop_everything_but_latest(data) ELSE data)
             ELSE [value |-> VNum(diff), none |-> FALSE, diff |-> diff, data |-> data]

\* TimeSeries.get_diff(interval, mutable): the value returned and the data
\* the series holds after the call.  interval is in seconds.  none tells
\* that the value is None; otherwise diff is the difference as the program
\* holds it, an int or a float, and value its output number.
get_diff(data, interval, mutable) ==
    IF Len(data) < 2 THEN NoDiff(data)
    ELSE LET data_prev == data[Len(data) - 1]
             data_latest == data[Len(data)]
         IN  IF GapTooLarge(data_latest[1], data_prev[1], interval)
             THEN NoDiff(data)
             ELSE With(Minus(data_latest[2], data_prev[2]), LAMBDA diff :
                 IF IsNeg(diff)
                 THEN NoDiff(IF mutable THEN drop_everything_but_latest(data) ELSE data)
                 ELSE [value |-> VNum(diff), none |-> FALSE, diff |-> diff,
                       data |-> data])

\* TimeSeries.serialize()
serialize(ts) == [key_dict |-> ts.key_dict, data |-> ts.data]

RECURSIVE AddAll(_, _)
AddAll(data, tups) ==
    IF tups = <<>> THEN data
    ELSE AddAll(add(data, Head(tups)[1], Head(tups)[2]), Tail(tups))

\* TimeSeries.unserialize(d)
unserialize(d) ==
    [key_dict |-> d.key_dict, data |-> AddAll(<<>>, d.data), n |-> 0]

(***************************************************************************)
(* Keys.  A key_dict is a record with every attribute the program uses;    *)
(* an attribute that the dict does not carry is NoAttr (direction, unit)   *)
(* or None (le).  Records compare by content, which is what the sorted     *)
(* tuple of key_dict_to_tuple gives the program.  le is in milliseconds.   *)
(***************************************************************************)

NoAttr == "-"

\* State._key_dict(name, backend, zone, *key_values)
_key_dict(name, backend, zone, direction, unit, le) ==
    [name |-> name, backend |-> backend, zone |-> zone,
     direction |-> direction, unit |-> unit, le |-> le]

\* A Python dict in insertion order is the function from its keys to its
\* entries; each entry carries its key as key_dict and its position in the
\* order as n.  A list of entries with distinct keys (the list of series of
\* a checkpoint) is held the same way.
Range(s) == {s[i] : i \in 1..Len(s)}

Pos(s, x) == CHOOSE i \in 1..Len(s) : s[i] = x

\* The elements of a sequence in the order of their first occurrence.
Distinct(s) ==
    LET Ordered(firsts) ==
            [n \in 1..Cardinality(firsts) |->
                s[CHOOSE i \in firsts : Cardinality({j \in firsts : j <= i}) = n]]
    IN  Ordered({i \in 1..Len(s) : \A j \in 1..(i - 1) : s[j] # s[i]})

\* The keys that a run of d.setdefault(key, ...) over keys appends to d.
NewKeys(d, keys) ==
    Distinct(SelectSeq(keys, LAMBDA k : k \notin DOMAIN d))

\* The entries of a dict as a sequence in the order of the dict.
Items(d) ==
    [i \in 1..Cardinality(DOMAIN d) |-> d[CHOOSE k \in DOMAIN d : d[k].n = i]]

RECURSIVE SortSet(_)
SortSet(S) ==
    IF S = {} THEN <<>>
    ELSE LET m == CHOOSE x \in S : \A y \in S : x <= y
         IN  <<m>> \o SortSet(S \ {m})

(***************************************************************************)
(* Histogram: timeseries is the set _timeseries of key tuples, les the     *)
(* SortedDict _les from le to key tuple.                                   *)
(***************************************************************************)

\* Histogram(key_dict), to be entry n of _histograms
Histogram(key_dict, n) ==
    [key_dict |-> key_dict, timeseries |-> {}, les |-> [x \in {} |-> key_dict],
     n |-> n]

\* Histogram.add that fills _les and leaves the member set as it was.
Histogram_add_les(h, key_tuples) ==
    [key_dict |-> h.key_dict,
     n |-> h.n,
     timeseries |-> h.timeseries,
     les |-> [x \in (DOMAIN h.les) \cup {k.le : k \in key_tuples} |->
                IF \E k \in key_tuples : k.le = x
                THEN CHOOSE k \in key_tuples : k.le = x
                ELSE h.les[x]]]

\* Histogram.add(key_tuple) for each key tuple of a set.  The key tuples of
\* one histogram differ in le only, so which of them is added first has no
\* effect.  A key without le fails the method's assert and is never passed
\* (see _create_histogram).
Histogram_add(h, key_tuples) ==
    LET added == key_tuples \ h.timeseries
    IN  [key_dict |-> h.key_dict,
         n |-> h.n,
         timeseries |-> h.timeseries \cup added,
         les |-> [x \in (DOMAIN h.les) \cup {k.le : k \in added} |->
                    IF \E k \in added : k.le = x
                    THEN CHOOSE k \in added : k.le = x
                    ELSE h.les[x]]]

\* The first loop of Histogram.get_percentiles: the bucket counts in
\* ascending le order, or None at the first bucket that has no diff or that
\* counts less than the bucket before it; the latter is logged with
\* log_error.  An entry is <<le, count, diff>>: diff is the count, count its
\* plain integer (Huge when it has none).
RECURSIVE BucketCounts(_, _, _, _, _)
BucketCounts(les, h, tss, ival, counts) ==
    IF les = <<>> THEN [ok |-> TRUE, counts |-> counts, log |-> {}]
    ELSE With(get_diff(tss[h.les[Head(les)]].data, ival, FALSE), LAMBDA count :
        IF count.none THEN [ok |-> FALSE, counts |-> counts, log |-> {}]
        ELSE IF Len(counts) > 0
                /\ IsNeg(Minus(count.diff, counts[Len(counts)][3]))
        THEN [ok |-> FALSE, counts |-> counts, log |-> {"error"}]
        ELSE BucketCounts(Tail(les), h, tss, ival,
                          Append(counts, <<Head(les), count.value, count.diff>>)))

\* p = float(percentile) / 100.0 for the percentage given on the command
\* line
Percentile(percentage) == FDiv(Whole(percentage), Whole(100))

\* target_count = max(int(p * num_requests), 1) for the num_requests n: the
\* product of the two floats p and float(n), truncated to a Python int
target_count(percentage, n) ==
    IntMax(FInt(FMul(Percentile(percentage), float(n))), IntOf(1))

\* The index i the inner loop of get_percentiles stops at: the first bucket
\* with count >= target_count, Len(counts) + 1 when there is none
FirstBucket(counts, target) ==
    With({i \in 1..Len(counts) : IntCmp(VInt(counts[i][3]), target) >= 0},
         LAMBDA reached :
            IF reached = {} THEN Len(counts) + 1
            ELSE CHOOSE i \in reached : \A j \in reached : i <= j)

\* low_le + t * (high_le - low_le) for t = above / width, the true division
\* of the two Python ints above = target_count - low_count and
\* width = high_count - low_count; low_le and high_le are floats
Interpolated(low_le, high_le, above, width) ==
    FAdd(low_le, FMul(IntTrueDiv(above, width), FSub(high_le, low_le)))

\* The latency interpolated from the upper edge of the bucket downwards.
Latency_down(counts, percentage) ==
    With(target_count(percentage, counts[Len(counts)][3]), LAMBDA target :
    With(FirstBucket(counts, target), LAMBDA i :
    With(IF i = 1 THEN IntOf(0) ELSE VInt(counts[i - 1][3]), LAMBDA low_count :
    With(IntSub(VInt(counts[i][3]), low_count), LAMBDA width :
        Interpolated(IF i = 1 THEN FZero ELSE Seconds(counts[i - 1][1]),
                     Seconds(counts[i][1]),
                     IntSub(width, IntSub(target, low_count)),
                     width)))))

\* The latency get_percentiles computes for one p: the float, in seconds
Latency(counts, percentage) ==
    With(target_count(percentage, counts[Len(counts)][3]), LAMBDA target :
    With(FirstBucket(counts, target), LAMBDA i :
    With(IF i = 1 THEN IntOf(0) ELSE VInt(counts[i - 1][3]), LAMBDA low_count :
        Interpolated(IF i = 1 THEN FZero ELSE Seconds(counts[i - 1][1]),
                     Seconds(counts[i][1]),
                     IntSub(target, low_count),
                     IntSub(VInt(counts[i][3]), low_count)))))

\* Histogram.get_percentiles(timeseries, latency_percentiles, interval):
\* kind "none" is Python's None, otherwise values is the dict returned (empty
\* when num_requests = 0); log is what it logs.  pcts is the set of the
\* configured p, each named by its percentage.  When target_count is above
\* every count (float(num_requests) is above num_requests and p is 1.0),
\* the inner loop ends with i = len(counts) and counts[i] raises IndexError
\* (kind "IndexError").
get_percentiles(h, tss, pcts, ival) ==
    With(BucketCounts(SortSet(DOMAIN h.les), h, tss, ival, <<>>), LAMBDA bc :
        IF ~bc.ok THEN [kind |-> "none", values |-> <<>>, log |-> bc.log]
        ELSE IF bc.counts[Len(bc.counts)][3] = V(0)
        THEN [kind |-> "dict", values |-> <<>>, log |-> {}]
        ELSE IF \E p \in pcts :
                    FirstBucket(bc.counts,
                                target_count(p, bc.counts[Len(bc.counts)][3]))
                        > Len(bc.counts)
        THEN [kind |-> "IndexError", values |-> <<>>, log |-> {}]
        ELSE [kind |-> "dict",
              values |-> Table([p \in pcts |-> Latency(bc.counts, p)]),
              log |-> {}])

(***************************************************************************)
(* State: the store.  S is the pair of dicts [timeseries, histograms].     *)
(* A call that the program makes once per key is modelled for the whole    *)
(* list of keys of the calls at once.                                      *)
(***************************************************************************)

\* State._key_to_histogram_tuple(key)
_key_to_histogram_tuple(key) == [key EXCEPT !.le = None]

\* State._create_histogram(key_dict) for each key of keys, in order: the
\* new _histograms
_create_histogram(hs, keys) ==
    With(SelectSeq(keys, LAMBDA k : k.le # None), LAMBDA bucket_keys :
    With(NewKeys(hs, [i \in 1..Len(bucket_keys) |->
                        _key_to_histogram_tuple(bucket_keys[i])]), LAMBDA created :
        [histogram_tuple \in (DOMAIN hs) \cup Range(created) |->
            Histogram_add(
                IF histogram_tuple \in DOMAIN hs THEN hs[histogram_tuple]
                ELSE Histogram(histogram_tuple,
                               Cardinality(DOMAIN hs) + Pos(created, histogram_tuple)),
                {k \in Range(bucket_keys) :
                    _key_to_histogram_tuple(k) = histogram_tuple})]))

\* TimeSeries(key_dict), to be entry n of _timeseries
TimeSeries(key_dict, n) == [key_dict |-> key_dict, data |-> <<>>, n |-> n]

\* State._get_timeseries(key_dict, create=True) for each key of keys, in
\* order: the store afterwards
_get_timeseries(S, keys) ==
    With(NewKeys(S.timeseries, keys), LAMBDA created :
        [timeseries |->
            Table([key \in (DOMAIN S.timeseries) \cup Range(created) |->
                IF key \in DOMAIN S.timeseries THEN S.timeseries[key]
                ELSE TimeSeries(key, Cardinality(DOMAIN S.timeseries)
                                     + Pos(created, key))]),
         histograms |-> _create_histogram(S.histograms, keys)])

\* State._get_timeseries_diff(key_dict, mutable): the value returned and the
\* data the series holds afterwards (create=False: an unknown key gives None,
\* IndexError being caught, and creates nothing).
_get_timeseries_diff(S, key_dict, mutable, ival) ==
    IF key_dict \notin DOMAIN S.timeseries THEN NoDiff(<<>>)
    ELSE get_diff(S.timeseries[key_dict].data, ival, mutable)

(***************************************************************************)
(* Program constants                                                       *)
(***************************************************************************)

\* ZONE_TO_MILLISECONDS.get(zone, zone)
ZONE_TO_MILLISECONDS(zone) ==
    CASE zone = "BYPASS" -> "cache_none"
      [] zone = "MISS" -> "cache_miss"
      [] zone = "HIT" -> "cache_hit"
      [] zone = "NO_CACHE" -> "cache_no_cache"
      [] OTHER -> zone

HTTP_REQUEST_METHODS ==
    {"CONNECT", "DELETE", "GET", "HEAD", "PATCH", "POST", "PURGE", "PUT",
     "TRACE", "OPTIONS"}

CACHE_OTHER_ZONES == {"EXPIRED", "REVALIDATED", "SCARCE", "STALE", "UPDATING"}

CACHE_ZONES == {"BYPASS", "HIT", "MISS", "NO_CACHE"} \cup CACHE_OTHER_ZONES

\* zone.startswith('HTTP/'), for the zone names of the model
IsProtocolZone(zone) == zone \in {"HTTP/1.0", "HTTP/1.1", "HTTP/2.0"}

\* int(zone) for the zone names of the model; None is the ValueError
int(zone) ==
    CASE zone = "200" -> 200
      [] zone = "404" -> 404
      [] zone = "500" -> 500
      [] zone = "501" -> 501
      [] zone = "503" -> 503
      [] zone = "99" -> 99
      [] zone = "600" -> 600
      [] OTHER -> None

\* str(d) for one decimal digit
DigitStr(d) ==
    CASE d = 0 -> "0" [] d = 1 -> "1" [] d = 2 -> "2" [] d = 3 -> "3"
      [] d = 4 -> "4" [] d = 5 -> "5" [] d = 6 -> "6" [] d = 7 -> "7"
      [] d = 8 -> "8" [] d = 9 -> "9"

(***************************************************************************)
(* Zone parser.  backend_stats is the decoded snapshot: nowMsec and         *)
(* serverZones, the sequence of [zone, stats] in the order of the JSON     *)
(* object.  stats carries the zone's counters; stats.missing names the     *)
(* keys the zone's JSON object lacks, stats.bad the counters whose value   *)
(* is not a number (a string, null).  A data point is the pair             *)
(* [key_dict, value] of one call of _create_data_point.                    *)
(***************************************************************************)

RECURSIVE Flatten(_)
Flatten(seqs) == IF seqs = <<>> THEN <<>> ELSE Head(seqs) \o Flatten(Tail(seqs))

\* _parse_zone without the test of the lengths: zip pairs the bucket edges
\* with the counters there are.
_parse_zone_zip(backend, stats, zone) ==
    LET buckets == [i \in 1..Min(Len(stats.msecs), Len(stats.counters)) |->
                       [key_dict |-> _key_dict("response_duration", backend, zone,
                                               NoAttr, "s", stats.msecs[i]),
                        value |-> stats.counters[i]]]
        counters ==
            <<[key_dict |-> _key_dict("response_duration_sum", backend, zone,
                                      NoAttr, "s", None),
               value |-> FloatSeconds(stats.requestMsecCounter)],
              [key_dict |-> _key_dict("bytes", backend, zone, "in", "bytes", None),
               value |-> stats.inBytes],
              [key_dict |-> _key_dict("bytes", backend, zone, "out", "bytes", None),
               value |-> stats.outBytes],
              [key_dict |-> _key_dict("requests_total", backend, zone,
                                      NoAttr, "requests", None),
               value |-> stats.requestCounter]>>
        names == <<"requestMsecCounter", "inBytes", "outBytes", "requestCounter">>
        fails == {i \in 1..4 : names[i] \in stats.missing \cup stats.bad}
        read == IF fails = {} THEN 4
                ELSE (CHOOSE i \in fails : \A j \in fails : i <= j) - 1
        error == IF read = 4 THEN ""
                 ELSE IF names[read + 1] \in stats.missing THEN "KeyError"
                 ELSE "TypeError"
    IN  IF "requestBuckets" \in stats.missing
        THEN [points |-> <<>>, error |-> "KeyError", empty |-> <<>>]
        ELSE [points |-> buckets \o SubSeq(counters, 1, read),
              error |-> error,
              empty |-> IF error = "TypeError" /\ read >= 1
                        THEN <<counters[read + 1].key_dict>> ELSE <<>>]

\* State._parse_zone(updated_ts, t_cur, backend, backend_stats, zone) for the
\* zone's object stats: the calls of _create_data_point it makes, in order,
\* before it returns or raises, and the exception raised ("" for none).  A
\* value that is not a number raises TypeError: requestMsecCounter in the
\* division by 1000, the others in TimeSeries.add, after _get_timeseries
\* has created the series (empty holds its key then).
_parse_zone(backend, stats, zone) ==
    With(<<[key_dict |-> _key_dict("response_duration_sum", backend, zone,
                                   NoAttr, "s", None),
            value |-> FloatSeconds(stats.requestMsecCounter)],
           [key_dict |-> _key_dict("bytes", backend, zone, "in", "bytes", None),
            value |-> stats.inBytes],
           [key_dict |-> _key_dict("bytes", backend, zone, "out", "bytes", None),
            value |-> stats.outBytes],
           [key_dict |-> _key_dict("requests_total", backend, zone,
                                   NoAttr, "requests", None),
            value |-> stats.requestCounter]>>, LAMBDA counters :
        LET buckets == [i \in 1..Len(stats.msecs) |->
                           [key_dict |-> _key_dict("response_duration", backend, zone,
                                                   NoAttr, "s", stats.msecs[i]),
                            value |-> stats.counters[i]]]
            names == <<"requestMsecCounter", "inBytes", "outBytes", "requestCounter">>
            fails == {i \in 1..4 : names[i] \in stats.missing \cup stats.bad}
            read == IF fails = {} THEN 4
                    ELSE (CHOOSE i \in fails : \A j \in fails : i <= j) - 1
            error == IF read = 4 THEN ""
                     ELSE IF names[read + 1] \in stats.missing THEN "KeyError"
                     ELSE "TypeError"
        IN  IF "requestBuckets" \in stats.missing
            THEN [points |-> <<>>, error |-> "KeyError", empty |-> <<>>]
            ELSE IF Len(stats.msecs) # Len(stats.counters)
            THEN [points |-> <<>>, error |-> "ValueError", empty |-> <<>>]
            ELSE [points |-> buckets \o SubSeq(counters, 1, read),
                  error |-> error,
                  empty |-> IF error = "TypeError" /\ read >= 1
                            THEN <<counters[read + 1].key_dict>> ELSE <<>>])

\* State._create_data_point(updated_ts, key_dict, value, t) for each data
\* point of points, in order: the store afterwards.  updated_ts is the list
\* of the keys of points.
_create_data_point(S, points, t) ==
    With([i \in 1..Len(points) |-> points[i].key_dict], LAMBDA keys :
    With(_get_timeseries(S, keys), LAMBDA S1 :
        [timeseries |->
            Table([key \in DOMAIN S1.timeseries |->
                IF key \in Range(keys)
                THEN [S1.timeseries[key] EXCEPT !.data =
                         AddAll(@, With(SelectSeq(points,
                                                  LAMBDA pt : pt.key_dict = key),
                                        LAMBDA mine : [i \in 1..Len(mine) |->
                                                          <<t, mine[i].value>>]))]
                ELSE S1.timeseries[key]]),
         histograms |-> S1.histograms]))

(***************************************************************************)
(* Zone aggregator                                                         *)
(***************************************************************************)

\* _aggregate_zones without the exception for 503: every status zone is
\* summed into its <d>xx zone.
AggZones_503(zone) ==
    IF zone \in CACHE_OTHER_ZONES THEN <<"cache_other">>
    ELSE IF int(zone) = None THEN <<>>
    ELSE IF int(zone) < 100 \/ int(zone) >= 600 THEN <<>>
    ELSE <<"total", DigitStr(int(zone) \div 100) \o "xx">>

\* The zones that the loop body of _aggregate_zones sums a series of zone
\* into, in the order of its _get_timeseries calls.
AggZones(zone) ==
    IF zone \in CACHE_OTHER_ZONES THEN <<"cache_other">>
    ELSE IF int(zone) = None THEN <<>>
    ELSE IF int(zone) < 100 \/ int(zone) >= 600 THEN <<>>
    ELSE IF zone = "503" THEN <<"total">>
    ELSE <<"total", DigitStr(int(zone) \div 100) \o "xx">>

\* agg_ts.sum(ts) for each ts of tses, in order: the data of agg_ts
RECURSIVE SumAll(_, _)
SumAll(data, tses) ==
    IF tses = <<>> THEN data
    ELSE SumAll(sum(data, Head(tses)), Tail(tses))

\* The _get_timeseries(agg_key_dict, create=True) calls of _aggregate_zones,
\* in order: the keys of the sums of the updated series.
AggKeys(updated_ts) ==
    LET Slot(n) ==
            LET Filled(key, zs, j) ==
                    IF j <= Len(zs)
                    THEN [ok |-> TRUE, key_dict |-> [key EXCEPT !.zone = zs[j]]]
                    ELSE [ok |-> FALSE, key_dict |-> key]
            IN  Filled(updated_ts[(n + 1) \div 2],
                       AggZones(updated_ts[(n + 1) \div 2].zone), 2 - (n % 2))
        Keys(calls) == [i \in 1..Len(calls) |-> calls[i].key_dict]
    IN  Keys(SelectSeq([n \in 1..(2 * Len(updated_ts)) |-> Slot(n)],
                       LAMBDA c : c.ok))

\* _aggregate_zones with the class name added for 503 as well.
StatusCodeZones_5xx(zone) ==
    IF zone \in CACHE_OTHER_ZONES THEN <<>>
    ELSE IF int(zone) = None THEN <<>>
    ELSE IF int(zone) < 100 \/ int(zone) >= 600 THEN <<>>
    ELSE <<zone, DigitStr(int(zone) \div 100) \o "xx">>

\* The zones _aggregate_zones adds to status_code_zones for a series of
\* zone, in the order of the adds.
StatusCodeZones(zone) ==
    IF zone \in CACHE_OTHER_ZONES THEN <<>>
    ELSE IF int(zone) = None THEN <<>>
    ELSE IF int(zone) < 100 \/ int(zone) >= 600 THEN <<>>
    ELSE IF zone = "503" THEN <<zone>>
    ELSE <<zone, DigitStr(int(zone) \div 100) \o "xx">>

\* State._aggregate_zones(updated_ts): the store, the extended updated_ts and
\* the status_code_zones returned.  The set status_code_zones is held as
\* the sequence of its members in the order in which they were added: the
\* order in which a process iterates a set of strings depends on the hashes
\* of the process and on the adds that built the set.  agg_tses is a Python
\* set of objects; the order in which it extends updated_ts has no effect,
\* the list being read only for its zones.  No series that is summed is
\* itself a sum: AggZones of 'total', '<d>xx' and 'cache_other' is empty.
_aggregate_zones(S, updated_ts) ==
    With(AggKeys(updated_ts), LAMBDA agg_keys :
    With(_get_timeseries(S, agg_keys), LAMBDA S1 :
        [S |->
            [timeseries |->
                Table([agg_key \in DOMAIN S1.timeseries |->
                    IF agg_key \in Range(agg_keys)
                    THEN [S1.timeseries[agg_key] EXCEPT !.data =
                            SumAll(@, With(SelectSeq(updated_ts, LAMBDA key :
                                        /\ [key EXCEPT !.zone = agg_key.zone] = agg_key
                                        /\ agg_key.zone \in Range(AggZones(key.zone))),
                                    LAMBDA tses : [i \in 1..Len(tses) |->
                                        S1.timeseries[tses[i]].data]))]
                    ELSE S1.timeseries[agg_key]]),
             histograms |-> S1.histograms],
         updated_ts |-> updated_ts \o Distinct(agg_keys),
         status_code_zones |->
            Distinct(Flatten([i \in 1..Len(updated_ts) |->
                                 StatusCodeZones(updated_ts[i].zone)]))]))

\* The zone names of the model in the order of Python's string comparison
ZONE_NAMES_SORTED ==
    <<"200", "2xx", "404", "4xx", "500", "501", "503", "5xx", "600", "99",
      "BYPASS", "CONNECT", "DELETE", "EXPIRED", "GET", "HEAD", "HIT",
      "HTTP/1.0", "HTTP/1.1", "HTTP/2.0", "MISS", "NO_CACHE", "OPTIONS",
      "PATCH", "POST", "PURGE", "PUT", "REVALIDATED", "SCARCE", "STALE",
      "TRACE", "UPDATING", "cache_other", "total">>

\* sorted(zones) for a set of zone names
sorted(zones) == SelectSeq(ZONE_NAMES_SORTED, LAMBDA zone : zone \in zones)

\* The orders in which a process can iterate the set that the adds of zones
\* have built.  The order follows the hashes of the strings, which are
\* drawn when the process starts: every order of the members can be met.
SetOrders(zones) ==
    {order \in [1..Len(zones) -> Range(zones)] : Range(order) = Range(zones)}

\* The members of the set that the adds of zones have built, in the order in
\* which the process iterates it: set_order maps the adds of a set of two
\* members or more to that order.
Iterated(zones, set_order) == IF Len(zones) < 2 THEN zones ELSE set_order[zones]

\* _dict_inserted_in_top_order(d): a dict is the sequence of its items
\* <<key, value>> in insertion order, a value the record of a diff: none
\* for None, diff the Python int otherwise.  The items are compared by the
\* values themselves, None as 0.  sorted(..., reverse=True) is stable:
\* items whose keys compare equal keep the order they had in d.
RECURSIVE _dict_inserted_in_top_order_asc(_)
\* The items in ascending order of value.
_dict_inserted_in_top_order_asc(d) ==
    IF d = <<>> THEN <<>>
    ELSE LET _tuple_or_none_key(key) == IF key[2].none THEN V(0) ELSE key[2].diff
             less(x, y) ==
                 \/ _tuple_or_none_key(x).hi < _tuple_or_none_key(y).hi
                 \/ /\ _tuple_or_none_key(x).hi = _tuple_or_none_key(y).hi
                    /\ _tuple_or_none_key(x).lo < _tuple_or_none_key(y).lo
             first == CHOOSE i \in 1..Len(d) :
                         \A j \in 1..Len(d) :
                             \/ less(d[i], d[j])
                             \/ (~less(d[j], d[i]) /\ i <= j)
         IN  <<d[first]>> \o _dict_inserted_in_top_order_asc(
                                 [k \in 1..(Len(d) - 1) |->
                                     IF k < first THEN d[k] ELSE d[k + 1]])

RECURSIVE _dict_inserted_in_top_order(_)
_dict_inserted_in_top_order(d) ==
    IF d = <<>> THEN <<>>
    ELSE LET _tuple_or_none_key(key) == IF key[2].none THEN V(0) ELSE key[2].diff
             less(x, y) ==
                 \/ _tuple_or_none_key(x).hi < _tuple_or_none_key(y).hi
                 \/ /\ _tuple_or_none_key(x).hi = _tuple_or_none_key(y).hi
                    /\ _tuple_or_none_key(x).lo < _tuple_or_none_key(y).lo
             first == CHOOSE i \in 1..Len(d) :
                         \A j \in 1..Len(d) :
                             \/ less(d[j], d[i])
                             \/ (~less(d[i], d[j]) /\ i <= j)
         IN  <<d[first]>> \o _dict_inserted_in_top_order(
                                 [k \in 1..(Len(d) - 1) |->
                                     IF k < first THEN d[k] ELSE d[k + 1]])

(***************************************************************************)
(* Metrics projector                                                       *)
(***************************************************************************)

\* d[k] = v on a dict that is a function
FunPut(d, k, v) == [x \in (DOMAIN d) \cup {k} |-> IF x = k THEN v ELSE d[x]]

RateNames == {"bytes", "bytes_in", "count", "sum"}

\* The rate rounded to the nearest hundredth where the code cuts it off.
Rate_nearest(value, dt) ==
    IntNum(FRoundInt(FMul(FDiv(FOfInt(value), dt), Whole(100))))

\* rate = value / (t_cur - self._t_prev); int(rate * 100) / 100, named by
\* its hundredths int(rate * 100).  value is the Python int of the stat, dt
\* the float t_cur - self._t_prev.
Rate(value, dt) ==
    IntNum(FInt(FMul(FDiv(FOfInt(value), dt), Whole(100))))

\* 'p{:02d}'.format(round(100 * p)), 'min' for p == 0.0, 'max' for p == 1.0
PercentileKey(p) ==
    IF p = 0 THEN "min"
    ELSE IF p = 100 THEN "max"
    ELSE "p" \o DigitStr(p \div 10) \o DigitStr(p % 10)

\* The key of the bytes received, read where the bytes sent are meant.
BytesOutKey_in(backend, zone) == _key_dict("bytes", backend, zone, "in", "bytes", None)

\* The keys of the four series the zone loop of _get_backend_metrics reads
\* for a zone.
BytesOutKey(backend, zone) == _key_dict("bytes", backend, zone, "out", "bytes", None)

BytesInKey(backend, zone) == _key_dict("bytes", backend, zone, "in", "bytes", None)

CountKey(backend, zone) ==
    _key_dict("requests_total", backend, zone, NoAttr, "requests", None)

SumKey(backend, zone) ==
    _key_dict("response_duration_sum", backend, zone, NoAttr, "s", None)

\* The body of the zone loop of _get_backend_metrics: the zone's record from
\* the four diffs of the zone.  sum is round(sum_diff * 1000), avg is
\* round(sum_diff * 1000 / max(1, count)), both on floats; a rate is taken
\* of the Python int of the stat.  stats is the record, count_diff the
\* local count_diff that the loop also puts into the top-N dicts: none for
\* None, diff the Python int.
ZoneStats(S, backend, zone, t_cur, tprev, ival) ==
    With(_get_timeseries_diff(S, BytesOutKey(backend, zone), TRUE, ival), LAMBDA bytes :
    With(_get_timeseries_diff(S, BytesInKey(backend, zone), TRUE, ival), LAMBDA bytes_in :
    With(_get_timeseries_diff(S, CountKey(backend, zone), TRUE, ival), LAMBDA count_diff :
    With(_get_timeseries_diff(S, SumKey(backend, zone), TRUE, ival), LAMBDA sum_diff :
    With(FMul(float(sum_diff.diff), Whole(1000)), LAMBDA ms :
    With(FSub(Seconds(t_cur), Seconds(tprev)), LAMBDA dt :
    With(FRoundInt(ms), LAMBDA rounded :
        LET stat(name) ==
                CASE name = "bytes" -> bytes
                  [] name = "bytes_in" -> bytes_in
                  [] name = "count" -> count_diff
                  [] name = "sum" -> sum_diff
        IN  [count_diff |-> [none |-> count_diff.none, diff |-> count_diff.diff],
             stats |->
            [bytes |-> bytes.value,
             bytes_in |-> bytes_in.value,
             count |-> count_diff.value,
             sum |-> IF sum_diff.none THEN None ELSE IntNum(rounded),
             avg |-> IF ~sum_diff.none /\ ~count_diff.none
                     THEN IntNum(FRoundInt(FDiv(ms, FOfInt(IntMax(IntOf(1),
                                                        VInt(count_diff.diff))))))
                     ELSE None,
             rate |-> IF t_cur > tprev
                      THEN Table([name \in RateNames |->
                               IF stat(name).none THEN None
                               ELSE Rate(IF name = "sum" THEN rounded
                                         ELSE VInt(stat(name).diff), dt)])
                      ELSE <<>>,
             pct |-> <<>>]])))))))

\* The series after the mutable diffs of the zone loop: each zone's four
\* series go through get_diff(interval, True).  The program visits
\* sorted(zones); each visit reads and changes the zone's own series only,
\* so the order of the visits has no effect.
ZoneLoop(tss, backend, zones, ival) ==
    With(UNION {{BytesOutKey(backend, z), BytesInKey(backend, z),
                 CountKey(backend, z), SumKey(backend, z)} : z \in zones}, LAMBDA read :
        Table([key \in DOMAIN tss |->
            IF key \in read
            THEN [tss[key] EXCEPT !.data = get_diff(@, ival, TRUE).data]
            ELSE tss[key]]))

\* The histogram loop of _get_backend_metrics: every histogram of the store
\* is visited, in the order of the dict.  raised is TRUE when get_percentiles
\* raises IndexError or d[ms][key] = value raises KeyError, error is the
\* kind of the first histogram that raises ("dict" for the KeyError of the
\* write); pct[ms] is what the loop leaves in d[ms] otherwise (the last
\* histogram written wins); log is what get_percentiles has logged for the
\* histograms visited.
HistogramLoop(mss, hs, tss, pcts, ival) ==
    With(Table([h \in DOMAIN hs |-> get_percentiles(hs[h], tss, pcts, ival)]),
         LAMBDA values :
    With({h \in DOMAIN hs :
            values[h].kind = "dict" /\ DOMAIN values[h].values # {}}, LAMBDA written :
    With({h \in DOMAIN hs :
            \/ values[h].kind = "IndexError"
            \/ h \in written /\ ZONE_TO_MILLISECONDS(h.zone) \notin mss},
         LAMBDA raising :
        [raised |-> raising # {},
         error |-> IF raising = {} THEN ""
                   ELSE values[CHOOSE h \in raising :
                                  \A g \in raising : hs[h].n <= hs[g].n].kind,
         log |-> UNION {values[h].log :
                          h \in {g \in DOMAIN hs :
                                    \A r \in raising : hs[g].n <= hs[r].n}},
         pct |-> Table([ms \in mss |->
                    IF \E h \in written : ZONE_TO_MILLISECONDS(h.zone) = ms
                    THEN With(values[CHOOSE h \in written :
                                        /\ ZONE_TO_MILLISECONDS(h.zone) = ms
                                        /\ \A g \in written :
                                              ZONE_TO_MILLISECONDS(g.zone) = ms
                                                  => hs[g].n <= hs[h].n].values,
                              LAMBDA last :
                                [k \in {PercentileKey(p) : p \in pcts} |->
                                    IntNum(FRoundInt(FDiv(
                                        last[CHOOSE q \in pcts : PercentileKey(q) = k],
                                        Seconds(1))))])
                    ELSE <<>>])])))

\* State._get_backend_metrics(t_cur, backend, updated_ts, status_code_zones):
\* the store after the mutable diffs, the dict d (zones is its per-zone
\* part, top_* its four top-N parts: the items <<zone, count>> in the order
\* of the dict written, which _dict_inserted_in_top_order gives them by
\* the count diffs themselves), whether KeyError was raised and what
\* get_percentiles has logged.  status_code_stats
\* gets its keys in the order in which the set status_code_zones is
\* iterated (set_order); the other three get theirs in the order of sorted(zones).
\* The zones of the model map to distinct output names.
_get_backend_metrics(S, t_cur, backend, updated_ts, status_code_zones, set_order, tprev, ival, pcts) ==
    With({updated_ts[i].zone : i \in 1..Len(updated_ts)}, LAMBDA zones :
    With({ZONE_TO_MILLISECONDS(z) : z \in zones}, LAMBDA mss :
    With(Table([z \in zones |-> ZoneStats(S, backend, z, t_cur, tprev, ival)]),
         LAMBDA stats :
    With(ZoneLoop(S.timeseries, backend, zones, ival), LAMBDA tss :
    With(HistogramLoop(mss, S.histograms, tss, pcts, ival), LAMBDA H :
    With(Table([part \in {"status", "request_type", "protocol", "cache"} |->
            With(CASE part = "status" -> Iterated(status_code_zones, set_order)
                   [] part = "request_type" -> sorted(zones \cap HTTP_REQUEST_METHODS)
                   [] part = "protocol" -> sorted({x \in zones : IsProtocolZone(x)})
                   [] part = "cache" -> sorted(zones \cap CACHE_ZONES),
                 LAMBDA keys :
            With(_dict_inserted_in_top_order(
                     [i \in 1..Len(keys) |->
                         <<keys[i],
                           IF keys[i] \in zones
                           THEN stats[keys[i]].count_diff
                           ELSE [none |-> FALSE, diff |-> V(0)]>>]),
                 LAMBDA sorted_d :
                [i \in 1..Len(sorted_d) |->
                    <<sorted_d[i][1],
                      IF sorted_d[i][2].none THEN None
                      ELSE VNum(sorted_d[i][2].diff)>>]))]),
         LAMBDA top :
            [S |-> [timeseries |-> tss, histograms |-> S.histograms],
             raised |-> H.raised,
             error |-> IF H.error = "IndexError" THEN "IndexError" ELSE "KeyError",
             log |-> H.log,
             d |-> [zones |-> Table([ms \in mss |->
                                [stats[CHOOSE z \in zones :
                                          ZONE_TO_MILLISECONDS(z) = ms].stats
                                    EXCEPT !.pct = H.pct[ms]]]),
                    top_status |-> top["status"],
                    top_request_type |-> top["request_type"],
                    top_protocol |-> top["protocol"],
                    top_cache |-> top["cache"]]]))))))

(***************************************************************************)
(* State.aggregate_backend_data, State.save, State.load                    *)
(***************************************************************************)

\* The for-zone loop of aggregate_backend_data for one backend: the data
\* points of the zones that parse, t_cur (None until test mode has read
\* nowMsec in the first iteration; a snapshot without nowMsec fails every
\* iteration with KeyError) and the log kinds.  KeyError, IndexError and
\* ValueError are caught per zone; a TypeError ends the loop and leaves
\* aggregate_backend_data.
ParseZones(backend, backend_stats, t_cur) ==
    With(backend_stats.serverZones, LAMBDA zones :
    With(IF t_cur = None /\ Len(zones) > 0 THEN backend_stats.nowMsec ELSE t_cur,
         LAMBDA t :
    With(Table([i \in 1..Len(zones) |->
                  IF t = None
                  THEN [points |-> <<>>, error |-> "KeyError", empty |-> <<>>]
                  ELSE _parse_zone(backend, zones[i].stats, zones[i].zone)]),
         LAMBDA parsed :
        LET raising == {i \in 1..Len(zones) : parsed[i].error = "TypeError"}
            last == IF raising = {} THEN Len(zones)
                    ELSE CHOOSE i \in raising : \A j \in raising : i <= j
        IN  [points |-> Flatten([i \in 1..last |-> parsed[i].points]),
             empty |-> IF raising = {} THEN <<>> ELSE parsed[last].empty,
             raised |-> IF raising = {} THEN "" ELSE "TypeError",
             t_cur |-> t,
             log |-> IF \E i \in 1..last :
                            parsed[i].error \notin {"", "TypeError"}
                     THEN {"exception"} ELSE {}])))

\* The body of the for-backend loop of aggregate_backend_data.  R is
\* [S, milliseconds_stats, t_cur, raised, log, iterated]; item is one
\* (backend, data) pair, item.kind telling what data decodes to; iterated
\* holds the sets status_code_zones that _get_backend_metrics has iterated.
AggregateBackend(R, item, set_order, tprev, ival, pcts) ==
    IF item.kind = "invalid_utf8" THEN [R EXCEPT !.log = @ \cup {"error"}]
    ELSE IF item.kind \in {"invalid_json", "no_serverZones"}
    THEN [R EXCEPT !.log = @ \cup {"exception"}]
    ELSE
    With(ParseZones(item.backend, item.stats, R.t_cur), LAMBDA Z :
    With(_create_data_point(R.S, Z.points, Z.t_cur), LAMBDA Stored :
        IF Z.raised # ""
        THEN [S |-> _get_timeseries(Stored, Z.empty),
              milliseconds_stats |-> R.milliseconds_stats,
              t_cur |-> Z.t_cur,
              raised |-> Z.raised,
              log |-> R.log \cup Z.log,
              iterated |-> R.iterated]
        ELSE
        With(_aggregate_zones(Stored,
                              [i \in 1..Len(Z.points) |-> Z.points[i].key_dict]),
             LAMBDA G :
        With(_get_backend_metrics(G.S, Z.t_cur, item.backend, G.updated_ts,
                                  G.status_code_zones, set_order, tprev, ival, pcts),
             LAMBDA B :
            [S |-> B.S,
             milliseconds_stats |->
                 IF B.raised THEN R.milliseconds_stats
                 ELSE FunPut(R.milliseconds_stats, item.backend,
                             [t |-> Z.t_cur, metrics |-> B.d]),
             t_cur |-> Z.t_cur,
             raised |-> IF B.raised THEN B.error ELSE "",
             log |-> R.log \cup Z.log \cup B.log,
             iterated |-> R.iterated \cup {G.status_code_zones}]))))

RECURSIVE BackendLoop(_, _, _, _, _, _)
BackendLoop(R, backend_data, set_order, tprev, ival, pcts) ==
    IF backend_data = <<>> \/ R.raised # "" THEN R
    ELSE BackendLoop(AggregateBackend(R, Head(backend_data), set_order, tprev, ival, pcts),
                     Tail(backend_data), set_order, tprev, ival, pcts)

\* State.aggregate_backend_data(t_cur, backend_data, args) up to the write
\* of the milliseconds file: raised is "KeyError" when the projection of a
\* backend raised, "AssertionError" when t_cur is None at the end (the
\* milliseconds file is written before that assert), "" otherwise.
aggregate_backend_data(S, t_cur, backend_data, testmode, set_order, tprev, ival, pcts) ==
    With(BackendLoop([S |-> S, milliseconds_stats |-> <<>>,
                      t_cur |-> IF testmode THEN None ELSE t_cur,
                      raised |-> "", log |-> {}, iterated |-> {}],
                     backend_data, set_order, tprev, ival, pcts), LAMBDA R :
        IF R.raised = "" /\ R.t_cur = None
        THEN [R EXCEPT !.raised = "AssertionError"]
        ELSE R)

\* The sets status_code_zones that aggregate_backend_data hands to
\* _get_backend_metrics for backend_data when nothing is raised: one for
\* each backend whose zones are parsed.
StatusCodeSets(backend_data) ==
    {With(ParseZones(item.backend, item.stats, 0), LAMBDA Z :
        Distinct(Flatten([i \in 1..Len(Z.points) |->
                             StatusCodeZones(Z.points[i].key_dict.zone)]))) :
        item \in {x \in Range(backend_data) : x.kind = "json"}}

\* The ways a process can iterate each of the sets zone_sets
IterationOrders(zone_sets) ==
    {set_order \in [zone_sets -> UNION {SetOrders(zones) : zones \in zone_sets}] :
        \A zones \in zone_sets : set_order[zones] \in SetOrders(zones)}

\* A file on disk: absent, partial (a write that did not finish) or complete.
Absent == [kind |-> "absent", content |-> <<>>]

PartialFile(content) == [kind |-> "partial", content |-> content]

CompleteFile(content) == [kind |-> "complete", content |-> content]

\* The text State.save writes: repr of the dict of the list of the
\* serialized series and t_prev.
CheckpointText(S, tprev) ==
    [timeseries |-> [key \in DOMAIN S.timeseries |->
                        [serialized_ts |-> serialize(S.timeseries[key]),
                         n |-> S.timeseries[key].n]],
     t_prev |-> tprev]

EmptyStore == [timeseries |-> <<>>, histograms |-> <<>>]

\* State.load() on a fresh State: the store, t_prev and the log kinds.  A
\* partial file does not parse (SyntaxError); a complete file was written by
\* save: it passes validate2(CHECKPOINT_FMT, d) and no two of its series
\* have the same key.
load(file) ==
    IF file.kind = "absent"
    THEN [S |-> EmptyStore, t_prev |-> -1000, log |-> {"warning"}]
    ELSE IF file.kind = "partial"
    THEN [S |-> EmptyStore, t_prev |-> -1000, log |-> {"exception"}]
    ELSE With([key \in DOMAIN file.content.timeseries |->
                 [unserialize(file.content.timeseries[key].serialized_ts) EXCEPT
                     !.n = file.content.timeseries[key].n]], LAMBDA tses :
        [S |-> [timeseries |-> tses,
                histograms |->
                    _create_histogram(
                        <<>>, [i \in 1..Cardinality(DOMAIN tses) |->
                                  Items(tses)[i].key_dict])],
         t_prev |-> file.content.t_prev, log |-> {}])

(***************************************************************************)
(* Configuration (the command line) and the backends' answers              *)
(***************************************************************************)

\* --interval, in seconds
interval == 60

\* --test-limit of a production run: the number of loop iterations after
\* which the loop ends
test_limit == 4

\* --test-limit of the production runs of SpecZones, SpecWake and
\* SpecBackends
short_limit == 3

\* --test-limit of a test-mode run: none (the default -1), 2, or that of a
\* production run
TestLimits == {-1, 2, test_limit}

\* How many URLs a test-mode run is given: argparse asks for at least one
\* (nargs='+')
UrlCounts == 1..3

\* The command lines: a production run has the one URL of its backend, a
\* test-mode run the paths of its snapshot files.  A URL is its position in
\* args.urls; the files of a test-mode run are in one directory.
Args(testmode) ==
    IF testmode
    THEN {[urls |-> [i \in 1..n |-> i], test_limit |-> l] : n \in UrlCounts, l \in TestLimits}
    ELSE {[urls |-> <<1>>, test_limit |-> test_limit]}

\* late_margin = min(10.0, args.interval / 2), in ms
late_margin == Min(10000, (interval * 1000) \div 2)

\* CLOCK_DRIFT_MARGIN, in ms
CLOCK_DRIFT_MARGIN == 100

\* --latency-percentiles 0,50,99,100
latency_percentiles == {0, 50, 99, 100}

\* The backend identifier of the URL (production) and of the directory of
\* the snapshot files (test mode).
TheBackend == "b1"

\* One zone object of a snapshot, with bucket edges msecs and as many
\* cumulative bucket counters.
Zone(zone, requestCounter, requestMsecCounter, inBytes, outBytes, msecs, counters) ==
    [zone |-> zone,
     stats |-> [requestCounter |-> V(requestCounter),
                requestMsecCounter |-> V(requestMsecCounter),
                inBytes |-> V(inBytes),
                outBytes |-> V(outBytes),
                msecs |-> msecs,
                counters |-> [i \in 1..Len(counters) |-> V(counters[i])],
                missing |-> {},
                bad |-> {}]]

\* The counter value (1 << 52) - 1
NearLimit == [hi |-> 1, lo |-> -1]

\* The serverZones a backend can answer with.  1, 2, 3 are the snapshots of
\* scenarios S1, S2, S3 (zone 200).  4 and 5 are two consecutive snapshots
\* of a backend that publishes status zones (with one bucket each) and
\* cache zones (without buckets): the counts of 500 and 503 rise by 3, of
\* STALE by 2, of UPDATING by 5.  6 is 5 without the zone UPDATING.  7 is 4
\* with the outBytes of 500 and 503 at (1 << 52) - 1.  8 is 5 without the
\* zone 503.  11 is 4 with a zone 501 that has counted nothing in the place
\* of the cache zones; 9 and 10 are 11 with the bucket counts of 500 and 503
\* at (1 << 52) - 1 and a zone 501 that has counted 35 (9) or 34 (10)
\* requests.  12 is S1 after 2 more requests that took 9 ms, with 69 bytes
\* in and 123 bytes out.
ServerZones(id) ==
    CASE id = 1 -> <<Zone("200", 100, 5000, 1000, 2000, <<1, 10, 100>>, <<10, 50, 100>>)>>
      [] id = 2 -> <<Zone("200", 200, 15000, 3000, 6000, <<1, 10, 100>>, <<20, 100, 200>>)>>
      [] id = 3 -> <<Zone("200", 50, 4000, 500, 1000, <<1, 10, 100>>, <<5, 20, 50>>)>>
      [] id = 4 -> <<Zone("500", 10, 700, 100, 300, <<10>>, <<10>>),
                     Zone("503", 20, 900, 200, 500, <<10>>, <<20>>),
                     Zone("STALE", 30, 300, 300, 700, <<>>, <<>>),
                     Zone("UPDATING", 40, 400, 400, 900, <<>>, <<>>)>>
      [] id = 5 -> <<Zone("500", 13, 760, 130, 390, <<10>>, <<13>>),
                     Zone("503", 23, 990, 260, 530, <<10>>, <<23>>),
                     Zone("STALE", 32, 340, 340, 760, <<>>, <<>>),
                     Zone("UPDATING", 45, 500, 450, 1000, <<>>, <<>>)>>
      [] id = 6 -> <<Zone("500", 13, 760, 130, 390, <<10>>, <<13>>),
                     Zone("503", 23, 990, 260, 530, <<10>>, <<23>>),
                     Zone("STALE", 32, 340, 340, 760, <<>>, <<>>)>>
      [] id = 7 -> <<[Zone("500", 10, 700, 100, 0, <<10>>, <<10>>)
                        EXCEPT !.stats.outBytes = NearLimit],
                     [Zone("503", 20, 900, 200, 0, <<10>>, <<20>>)
                        EXCEPT !.stats.outBytes = NearLimit],
                     Zone("STALE", 30, 300, 300, 700, <<>>, <<>>),
                     Zone("UPDATING", 40, 400, 400, 900, <<>>, <<>>)>>
      [] id = 8 -> <<Zone("500", 13, 760, 130, 390, <<10>>, <<13>>),
                     Zone("STALE", 32, 340, 340, 760, <<>>, <<>>),
                     Zone("UPDATING", 45, 500, 450, 1000, <<>>, <<>>)>>
      [] id = 9 -> <<[Zone("500", 10, 700, 100, 300, <<10>>, <<10>>)
                        EXCEPT !.stats.counters = <<NearLimit>>],
                     [Zone("503", 20, 900, 200, 500, <<10>>, <<20>>)
                        EXCEPT !.stats.counters = <<NearLimit>>],
                     Zone("501", 35, 300, 300, 700, <<10>>, <<35>>)>>
      [] id = 10 -> <<[Zone("500", 10, 700, 100, 300, <<10>>, <<10>>)
                         EXCEPT !.stats.counters = <<NearLimit>>],
                      [Zone("503", 20, 900, 200, 500, <<10>>, <<20>>)
                         EXCEPT !.stats.counters = <<NearLimit>>],
                      Zone("501", 34, 300, 300, 700, <<10>>, <<34>>)>>
      [] id = 11 -> <<Zone("500", 10, 700, 100, 300, <<10>>, <<10>>),
                      Zone("503", 20, 900, 200, 500, <<10>>, <<20>>),
                      Zone("501", 0, 0, 0, 0, <<10>>, <<0>>)>>
      [] id = 12 -> <<Zone("200", 102, 5009, 1069, 2123, <<1, 10, 100>>, <<10, 51, 102>>)>>

\* What the fetch of Spec can give in production: the snapshot with that id.
ProdAnswers == {1, 2, 3}

\* What the fetch of SpecZones can give: 0 is a failed request (the backend
\* is left out of backend_data), otherwise the snapshot with that id.
ZoneAnswers == {0, 4, 5, 6, 7, 8}

\* The snapshot files of test mode: a snapshot and its nowMsec.
TestFiles == {[answer |-> a, nowMsec |-> n] : a \in {1, 2, 3}, n \in {60000, 120000}}

\* The wall clock when the process starts, in ms.
StartClocks == {59500}

\* How long after t_next a sleep can end, in ms: 30 ms after the time asked
\* for, shortly before the deadline, at the deadline.  time.time() is the
\* float nearest to the time: two ticks that are 60 s apart have floats that
\* are 60.0 or 59.99999999999999 apart.
WakeDelays == {CLOCK_DRIFT_MARGIN + 30, late_margin - 500, late_margin}

\* A sleep that ends 30 ms after the time asked for.
OnTime == {CLOCK_DRIFT_MARGIN + 30}

\* How long a fetch can take, in ms.
FetchDurations == {600}

\* How long after a crash the process is started again, in ms.
RestartDelays == {2000}

\* The number of crashes SpecCrash follows.
MaxRestarts == 1

\* The snapshot the backend of SpecCrash answers with at time t: S1, S2, S3
\* in turn, one per interval.
BackendAt(t) == 1 + (((t \div (interval * 1000)) + 2) % 3)

\* What fetch_backend_data can log for one URL and the answer it gets: a
\* request that fails (answer 0) has timed out or raised another HTTPError
\* (log_exception), or has a status other than 200 (log_error).
FetchLog(answer) == IF answer = 0 THEN {{"exception"}, {"error"}} ELSE {{}}

\* fetch_backend_data(urls, args) for one URL and the answer it gets
BackendData(answer, nowMsec) ==
    IF answer = 0 THEN <<>>
    ELSE <<[backend |-> TheBackend, kind |-> "json",
            stats |-> [nowMsec |-> nowMsec, serverZones |-> ServerZones(answer)]]>>

(***************************************************************************)
(* run_vtsaggregator                                                       *)
(***************************************************************************)

\* _get_start_time(timet, interval): timet in ms, the result in ms.
\* round(timet) is Python's round of the float of the time.
_get_start_time(timet, ival) ==
    LET Aligned(rounded) ==
            (CHOOSE n \in rounded..(rounded + ival) :
                n % ival = 0 /\ \A m \in rounded..(n - 1) : m % ival # 0) * 1000
    IN  Aligned(IntNum(FRoundInt(Seconds(timet))))

\* The while condition after an iteration that leaves step at n: the loop
\* goes on, or it ends and main returns 0.
While(n) == IF args.test_limit < 0 \/ n < args.test_limit THEN "loop" ELSE "exited"

TheStore == [timeseries |-> timeseries, histograms |-> histograms]

NoInflight == [kind |-> "none"]

\* State(args), state.load() and the first t_next
Start ==
    /\ pc = "start"
    /\ \E L \in {load(ckpt_file)} :
           /\ timeseries' = L.S.timeseries
           /\ histograms' = L.S.histograms
           /\ t_prev' = L.t_prev
           /\ log' = L.log
    /\ t_next' = IF test_mode THEN clock + interval * 1000
                 ELSE _get_start_time(clock, interval)
    /\ step' = 0
    /\ pc' = While(0)
    /\ UNCHANGED <<test_mode, args, iteration_order, clock, ms_file, ms_tmp, ckpt_file, ckpt_tmp,
                   inflight, ticks, versions, restarts, pq>>

\* t < t_next: time.sleep(t_next + CLOCK_DRIFT_MARGIN - t); continue
Sleep(delays) ==
    /\ pc = "loop"
    /\ ~test_mode
    /\ clock < t_next
    /\ \E delay \in delays : clock' = t_next + delay
    /\ log' = {}
    /\ UNCHANGED <<test_mode, args, iteration_order, t_next, step, pc, timeseries, histograms, t_prev,
                   ms_file, ms_tmp, ckpt_file, ckpt_tmp, inflight, ticks,
                   versions, restarts, pq>>

\* A loop that after a missed interval schedules the next tick one interval
\* after the time it woke
Missed_realign ==
    /\ pc = "loop"
    /\ ~test_mode
    /\ clock >= t_next + late_margin
    /\ log' = {"missed"}
    /\ t_next' = clock + interval * 1000
    /\ step' = step + 1
    /\ pc' = While(step + 1)
    /\ ticks' = Append(ticks, [kind |-> "missed", url |-> 0, answer |-> 0, t |-> clock,
                               late |-> FALSE, raised |-> ""])
    /\ UNCHANGED <<test_mode, args, iteration_order, clock, timeseries, histograms, t_prev,
                   ms_file, ms_tmp, ckpt_file, ckpt_tmp, inflight, versions,
                   restarts, pq>>

\* t >= t_deadline: the interval is missed
Missed ==
    /\ pc = "loop"
    /\ ~test_mode
    /\ clock >= t_next + late_margin
    /\ log' = {"missed"}
    /\ t_next' = t_next + interval * 1000
    /\ step' = step + 1
    /\ pc' = While(step + 1)
    /\ ticks' = Append(ticks, [kind |-> "missed", url |-> 0, answer |-> 0, t |-> clock,
                               late |-> FALSE, raised |-> ""])
    /\ UNCHANGED <<test_mode, args, iteration_order, clock, timeseries, histograms, t_prev,
                   ms_file, ms_tmp, ckpt_file, ckpt_tmp, inflight, versions,
                   restarts, pq>>

\* The orders in which the process can iterate the sets of status zones of
\* a tick: the order it has iterated a set in before, any order for a set
\* that it has not met.
HashedOrders(backend_data) ==
    {iteration_order @@ met :
        met \in IterationOrders({zones \in StatusCodeSets(backend_data) :
                                    /\ Len(zones) >= 2
                                    /\ zones \notin DOMAIN iteration_order})}

\* The orders of the sets the process has iterated up to the end of a tick
\* that iterated the sets iterated
OrdersMet(set_order, iterated) ==
    [zones \in (DOMAIN iteration_order)
                  \cup {z \in iterated : Len(z) >= 2} |-> set_order[zones]]

\* What fetch, aggregate_backend_data and save do to the program state and
\* the files, given the tick's timestamp argument t, the fetched data and
\* whether the fetch ended late.  An exception that leaves
\* aggregate_backend_data ends run_vtsaggregator: main logs it and returns.
\* fetched is what fetch_backend_data has logged for the URLs it gave up.
Tick(t, url, backend_data, answer, late, fetched) ==
    \E set_order \in HashedOrders(backend_data) :
    \E R \in {aggregate_backend_data(TheStore, t, backend_data, test_mode,
                                     set_order, t_prev, interval,
                                     latency_percentiles)} :
        /\ iteration_order' = OrdersMet(set_order, R.iterated)
        /\ timeseries' = R.S.timeseries
        /\ histograms' = R.S.histograms
        /\ ticks' = Append(ticks, [kind |-> "scrape", url |-> url, answer |-> answer,
                                   t |-> R.t_cur, late |-> late,
                                   raised |-> R.raised])
        /\ log' = fetched \cup R.log \cup (IF late THEN {"late"} ELSE {})
                        \cup (IF R.raised # "" THEN {"not catched"} ELSE {})
        /\ IF R.raised \in {"KeyError", "TypeError", "IndexError"}
           THEN /\ pc' = "exited"
                /\ UNCHANGED <<t_prev, ms_file, ckpt_file, t_next, step>>
           ELSE IF R.raised = "AssertionError"
           THEN /\ pc' = "exited"
                /\ ms_file' = CompleteFile(R.milliseconds_stats)
                /\ UNCHANGED <<t_prev, ckpt_file, t_next, step>>
           ELSE /\ pc' = While(step + 1)
                /\ ms_file' = CompleteFile(R.milliseconds_stats)
                /\ t_prev' = R.t_cur
                /\ ckpt_file' = CompleteFile(CheckpointText(R.S, R.t_cur))
                /\ t_next' = t_next + interval * 1000
                /\ step' = step + 1

\* A loop that hands t_next, not the time of waking, to aggregate_backend_data
Scrape_scheduled(answers) ==
    /\ pc = "loop"
    /\ ~test_mode
    /\ clock >= t_next
    /\ clock < t_next + late_margin
    /\ \E answer \in answers, duration \in FetchDurations :
          /\ \E fetched \in FetchLog(answer) :
                 Tick(t_next, args.urls[1], BackendData(answer, None), answer,
                      clock + duration >= t_next + late_margin, fetched)
          /\ clock' = clock + duration
    /\ UNCHANGED <<test_mode, args, ms_tmp, ckpt_tmp, inflight, versions, restarts, pq>>

\* t_next <= t < t_deadline in production: fetch, aggregate, save
Scrape(answers) ==
    /\ pc = "loop"
    /\ ~test_mode
    /\ clock >= t_next
    /\ clock < t_next + late_margin
    /\ \E answer \in answers, duration \in FetchDurations :
          /\ \E fetched \in FetchLog(answer) :
                 Tick(clock, args.urls[1], BackendData(answer, None), answer,
                      clock + duration >= t_next + late_margin, fetched)
          /\ clock' = clock + duration
    /\ UNCHANGED <<test_mode, args, ms_tmp, ckpt_tmp, inflight, versions, restarts, pq>>

\* One iteration in test mode: t = t_next, urls = [args.urls[step]] is
\* fetched; file is what the fetch finds there
TestStep(files) ==
    /\ pc = "loop"
    /\ test_mode
    /\ step < Len(args.urls)
    /\ \E file \in files :
          \E fetched \in FetchLog(file.answer) :
              Tick(t_next, args.urls[step + 1], BackendData(file.answer, file.nowMsec),
                   file.answer, FALSE, fetched)
    /\ UNCHANGED <<test_mode, args, clock, ms_tmp, ckpt_tmp, inflight, versions,
                   restarts, pq>>

\* step >= len(args.urls) in test mode: 'No more test data. Stopping.'
TestEnd ==
    /\ pc = "loop"
    /\ test_mode
    /\ step >= Len(args.urls)
    /\ pc' = "exited"
    /\ log' = {}
    /\ UNCHANGED <<test_mode, args, iteration_order, clock, t_next, step, timeseries, histograms, t_prev,
                   ms_file, ms_tmp, ckpt_file, ckpt_tmp, inflight, ticks,
                   versions, restarts, pq>>

NoQuery == [kind |-> "none"]

Init ==
    /\ test_mode \in BOOLEAN
    /\ args \in Args(test_mode)
    /\ iteration_order = <<>>
    /\ clock \in StartClocks
    /\ t_next = 0
    /\ step = 0
    /\ pc = "start"
    /\ timeseries = <<>>
    /\ histograms = <<>>
    /\ t_prev = -1000
    /\ ms_file = Absent
    /\ ms_tmp = Absent
    /\ ckpt_file = Absent
    /\ ckpt_tmp = Absent
    /\ log = {}
    /\ inflight = NoInflight
    /\ ticks = <<>>
    /\ versions = [ms |-> <<>>, ckpt |-> <<>>]
    /\ restarts = 0
    /\ pq = NoQuery

Next ==
    \/ Start
    \/ Sleep(WakeDelays)
    \/ Missed
    \/ Scrape(ProdAnswers)
    \/ TestStep(TestFiles)
    \/ TestEnd

Spec == Init /\ [][Next]_vars

(***************************************************************************)
(* SpecRates: production against a backend of one zone that answers with   *)
(* S1, S2 or with S1 after two more requests, the sleeps ending on time,   *)
(* shortly before the deadline or at the deadline (a missed interval).     *)
(***************************************************************************)

InitProduction == Init /\ ~test_mode

\* A production run that ends after short_limit iterations of the loop
InitShort ==
    /\ test_mode = FALSE
    /\ args = [urls |-> <<1>>, test_limit |-> short_limit]
    /\ iteration_order = <<>>
    /\ clock \in StartClocks
    /\ t_next = 0
    /\ step = 0
    /\ pc = "start"
    /\ timeseries = <<>>
    /\ histograms = <<>>
    /\ t_prev = -1000
    /\ ms_file = Absent
    /\ ms_tmp = Absent
    /\ ckpt_file = Absent
    /\ ckpt_tmp = Absent
    /\ log = {}
    /\ inflight = NoInflight
    /\ ticks = <<>>
    /\ versions = [ms |-> <<>>, ckpt |-> <<>>]
    /\ restarts = 0
    /\ pq = NoQuery

\* What the fetch of SpecRates can give: the snapshot with that id
RateAnswers == {1, 2, 12}

NextRates ==
    \/ Start
    \/ Sleep(WakeDelays)
    \/ Missed
    \/ Scrape(RateAnswers)

SpecRates == InitProduction /\ [][NextRates]_vars

(***************************************************************************)
(* SpecTest: test mode, for every number of URLs and every test limit.     *)
(***************************************************************************)

\* What a fetch of SpecTest can find at a URL: the file of snapshot S1, of
\* S2 or of snapshot 8 (zone 500 with a bucket, no zone 200), with nowMsec
\* one interval apart, or nothing (an http URL whose request fails)
SequenceFiles ==
    {[answer |-> 1, nowMsec |-> 60000], [answer |-> 2, nowMsec |-> 120000],
     [answer |-> 8, nowMsec |-> 180000], [answer |-> 0, nowMsec |-> None]}

InitTest == Init /\ test_mode

NextTest ==
    \/ Start
    \/ TestStep(SequenceFiles)
    \/ TestEnd

SpecTest == InitTest /\ [][NextTest]_vars

\* The process runs on: an iteration that can be taken is taken.
SpecTestFair == SpecTest /\ WF_vars(NextTest)

(***************************************************************************)
(* SpecZones: production, every sleep on time, against a backend that      *)
(* publishes status and cache zones.                                       *)
(***************************************************************************)

NextZones ==
    \/ Start
    \/ Sleep(OnTime)
    \/ Scrape(ZoneAnswers)

SpecZones == InitShort /\ [][NextZones]_vars

(***************************************************************************)
(* SpecZoneLoss: production, every sleep on time, against a backend that   *)
(* publishes status and cache zones and can stop publishing zone 503 (8).  *)
(***************************************************************************)

NextZoneLoss ==
    \/ Start
    \/ Sleep(OnTime)
    \/ Scrape({4, 5, 8})

SpecZoneLoss == InitProduction /\ [][NextZoneLoss]_vars

(***************************************************************************)
(* SpecCrash: production against a backend whose answer depends on the     *)
(* time only, with the writes of aggregate_backend_data and save taken     *)
(* step by step and a crash of the process possible between any two steps. *)
(* A crashed process is started again; what it held in memory is lost,     *)
(* the files stay as they are.                                             *)
(***************************************************************************)

\* t_next <= t < t_deadline: fetch, then aggregate_backend_data up to the
\* write of the milliseconds file
Aggregate ==
    /\ pc = "loop"
    /\ ~test_mode
    /\ clock >= t_next
    /\ clock < t_next + late_margin
    /\ \E duration \in FetchDurations :
          /\ \E set_order \in HashedOrders(BackendData(BackendAt(clock), None)) :
             \E R \in {aggregate_backend_data(
                          TheStore, clock, BackendData(BackendAt(clock), None),
                          test_mode, set_order, t_prev, interval,
                          latency_percentiles)} :
                /\ iteration_order' = OrdersMet(set_order, R.iterated)
                /\ timeseries' = R.S.timeseries
                /\ histograms' = R.S.histograms
                /\ inflight' = [kind |-> "tick",
                                milliseconds_stats |-> R.milliseconds_stats,
                                t_cur |-> R.t_cur, raised |-> R.raised]
                /\ ticks' = Append(ticks, [kind |-> "scrape",
                                           url |-> args.urls[1],
                                           answer |-> BackendAt(clock),
                                           t |-> R.t_cur,
                                           late |-> clock + duration >= t_next + late_margin,
                                           raised |-> R.raised])
                /\ log' = R.log
                             \cup (IF clock + duration >= t_next + late_margin
                                   THEN {"late"} ELSE {})
                             \cup (IF R.raised # "" THEN {"not catched"} ELSE {})
                /\ pc' = IF R.raised \in {"KeyError", "TypeError", "IndexError"} THEN "exited" ELSE "ms_open"
          /\ clock' = clock + duration
    /\ UNCHANGED <<test_mode, args, t_next, step, t_prev, ms_file, ms_tmp, ckpt_file,
                   ckpt_tmp, versions, restarts, pq>>

\* open(tmpname, 'w') and the start of f.write(json.dumps(milliseconds_stats)):
\* the temp file holds a part of the text
MsOpen ==
    /\ pc = "ms_open"
    /\ log' = {}
    /\ ms_tmp' = PartialFile(inflight.milliseconds_stats)
    /\ versions' = [versions EXCEPT !.ms = Append(@, inflight.milliseconds_stats)]
    /\ pc' = "ms_write"
    /\ UNCHANGED <<test_mode, args, iteration_order, clock, t_next, step, timeseries, histograms, t_prev,
                   ms_file, ckpt_file, ckpt_tmp, inflight, ticks, restarts, pq>>

\* the end of f.write and the close of the temp file
MsWrite ==
    /\ pc = "ms_write"
    /\ log' = {}
    /\ ms_tmp' = CompleteFile(ms_tmp.content)
    /\ pc' = "ms_rename"
    /\ UNCHANGED <<test_mode, args, iteration_order, clock, t_next, step, timeseries, histograms, t_prev,
                   ms_file, ckpt_file, ckpt_tmp, inflight, ticks, versions,
                   restarts, pq>>

\* os.rename(tmpname, self._milliseconds)
MsRename ==
    /\ pc = "ms_rename"
    /\ log' = {}
    /\ ms_file' = ms_tmp
    /\ ms_tmp' = Absent
    /\ pc' = "assert"
    /\ UNCHANGED <<test_mode, args, iteration_order, clock, t_next, step, timeseries, histograms, t_prev,
                   ckpt_file, ckpt_tmp, inflight, ticks, versions, restarts, pq>>

\* assert t_cur is not None; self._t_prev = t_cur
SetTPrev ==
    /\ pc = "assert"
    /\ log' = {}
    /\ IF inflight.raised = "AssertionError"
       THEN pc' = "exited" /\ UNCHANGED t_prev
       ELSE pc' = "save_open" /\ t_prev' = inflight.t_cur
    /\ UNCHANGED <<test_mode, args, iteration_order, clock, t_next, step, timeseries, histograms,
                   ms_file, ms_tmp, ckpt_file, ckpt_tmp, inflight, ticks,
                   versions, restarts, pq>>

\* save that writes the checkpoint file in place, without a temp file.
SaveOpen_inplace ==
    /\ pc = "save_open"
    /\ log' = {}
    /\ ckpt_file' = PartialFile(CheckpointText(TheStore, t_prev))
    /\ versions' = [versions EXCEPT !.ckpt = Append(@, CheckpointText(TheStore, t_prev))]
    /\ pc' = "save_write"
    /\ UNCHANGED <<test_mode, args, iteration_order, clock, t_next, step, timeseries, histograms, t_prev,
                   ms_file, ms_tmp, ckpt_tmp, inflight, ticks, restarts, pq>>

\* State.save: open(tmpname, 'w') and the start of f.write(s)
SaveOpen ==
    /\ pc = "save_open"
    /\ log' = {}
    /\ ckpt_tmp' = PartialFile(CheckpointText(TheStore, t_prev))
    /\ versions' = [versions EXCEPT !.ckpt = Append(@, CheckpointText(TheStore, t_prev))]
    /\ pc' = "save_write"
    /\ UNCHANGED <<test_mode, args, iteration_order, clock, t_next, step, timeseries, histograms, t_prev,
                   ms_file, ms_tmp, ckpt_file, inflight, ticks, restarts, pq>>

\* State.save: the end of f.write and the close of the temp file
SaveWrite ==
    /\ pc = "save_write"
    /\ log' = {}
    /\ ckpt_tmp' = CompleteFile(ckpt_tmp.content)
    /\ pc' = "save_rename"
    /\ UNCHANGED <<test_mode, args, iteration_order, clock, t_next, step, timeseries, histograms, t_prev,
                   ms_file, ms_tmp, ckpt_file, inflight, ticks, versions,
                   restarts, pq>>

\* State.save: os.rename(tmpname, self._checkpoint); then t_next += interval
\* and step += 1 of the loop
SaveRename ==
    /\ pc = "save_rename"
    /\ log' = {}
    /\ ckpt_file' = ckpt_tmp
    /\ ckpt_tmp' = Absent
    /\ t_next' = t_next + interval * 1000
    /\ step' = step + 1
    /\ pc' = While(step + 1)
    /\ inflight' = NoInflight
    /\ UNCHANGED <<test_mode, args, iteration_order, clock, timeseries, histograms, t_prev, ms_file,
                   ms_tmp, ticks, versions, restarts, pq>>

\* The process is killed and started again.
Crash ==
    /\ pc \notin {"start", "exited"}
    /\ restarts < MaxRestarts
    /\ restarts' = restarts + 1
    /\ \E delay \in RestartDelays : clock' = clock + delay
    /\ pc' = "start"
    /\ timeseries' = <<>>
    /\ histograms' = <<>>
    /\ t_prev' = -1000
    /\ t_next' = 0
    /\ step' = 0
    /\ log' = {}
    /\ inflight' = NoInflight
    /\ iteration_order' = <<>>
    /\ UNCHANGED <<test_mode, args, ms_file, ms_tmp, ckpt_file, ckpt_tmp, ticks,
                   versions, pq>>

NextCrash ==
    \/ Start
    \/ Sleep(OnTime)
    \/ Aggregate
    \/ MsOpen
    \/ MsWrite
    \/ MsRename
    \/ SetTPrev
    \/ SaveOpen
    \/ SaveWrite
    \/ SaveRename
    \/ Crash

SpecCrash == InitProduction /\ [][NextCrash]_vars

(***************************************************************************)
(* SpecPercentiles: Histogram.get_percentiles on the histogram of a store  *)
(* that two ticks (or one) of bucket counters have built, and on the       *)
(* histograms of the zones and aggregate zones of two ticks of a backend   *)
(* whose bucket counters reach (1 << 52) - 1.                              *)
(***************************************************************************)

\* The bucket edges of the queried histogram, in ms
QueryLes == <<1, 10, 100>>

\* The bucket counters of the first tick
QueryCounters == {<<0, 0, 0>>, <<10, 50, 100>>}

\* By how much a bucket counter can differ in the second tick
QueryDiffs == {-10, 0, 1, 10, 50, 100}

\* The time between the two ticks, in ms; 0 for no second tick.  150 s is
\* 2.5 intervals, the largest distance with a diff.
QueryGaps == {0, 60000, 150000, 180000}

\* The p of the query, in percent: every whole percentage
QueryPercentiles == 0..100

QueryKey(i) == _key_dict("response_duration", TheBackend, "200", NoAttr, "s", QueryLes[i])

QueryPoints(counters) ==
    [i \in 1..Len(QueryLes) |-> [key_dict |-> QueryKey(i), value |-> V(counters[i])]]

\* The store after _create_data_point for the buckets at time 60 s and, with
\* a gap, again at 60 s + gap
QueryStore(first, second, gap) ==
    IF gap = 0 THEN _create_data_point(EmptyStore, QueryPoints(first), 60000)
    ELSE _create_data_point(_create_data_point(EmptyStore, QueryPoints(first), 60000),
                            QueryPoints(second), 60000 + gap)

\* get_percentiles(timeseries, latency_percentiles, interval) of the
\* histogram of zone 200; log is what the call logs
Query ==
    /\ pc = "start"
    /\ pq = NoQuery
    /\ \E first \in QueryCounters, diffs \in [1..Len(QueryLes) -> QueryDiffs],
          gap \in QueryGaps :
          /\ \A i \in 1..Len(QueryLes) : first[i] + diffs[i] >= 0
          /\ \E S \in {QueryStore(first, [i \in 1..Len(QueryLes) |-> first[i] + diffs[i]],
                                  gap)} :
                \E result \in {get_percentiles(
                                  S.histograms[_key_to_histogram_tuple(QueryKey(1))],
                                  S.timeseries, QueryPercentiles, interval)} :
                    /\ pq' = [kind |-> "percentiles", first |-> first, diffs |-> diffs,
                              gap |-> gap,
                              result |-> [kind |-> result.kind, values |-> result.values]]
                    /\ log' = result.log
    /\ UNCHANGED <<test_mode, args, iteration_order, clock, t_next, step, pc, timeseries, histograms,
                   t_prev, ms_file, ms_tmp, ckpt_file, ckpt_tmp, inflight,
                   ticks, versions, restarts>>

\* The zones whose histogram QueryZone queries: two zones of the backend and
\* the aggregate zones that _aggregate_zones sums them into
QueriedZones == {"500", "501", "5xx", "total"}

\* The snapshots the backend of QueryZone answers with in the second tick
QueriedSnapshots == {5, 9, 10}

\* The parse and aggregate steps of aggregate_backend_data for one backend
\* that answers with the snapshot id at time t: the store afterwards
ParsedTick(S, id, t) ==
    LET zones == ServerZones(id)
        Run(points) ==
            _aggregate_zones(_create_data_point(S, points, t),
                             [i \in 1..Len(points) |-> points[i].key_dict]).S
    IN  Run(Flatten([i \in 1..Len(zones) |->
                        _parse_zone(TheBackend, zones[i].stats, zones[i].zone).points]))

\* get_percentiles of the histogram of a zone after the ticks at 60 s
\* (snapshot 11) and at 120 s
QueryZone ==
    /\ pc = "start"
    /\ pq = NoQuery
    /\ \E zone \in QueriedZones, second \in QueriedSnapshots :
          \E S \in {ParsedTick(ParsedTick(EmptyStore, 11, 60000), second, 120000)} :
             \E result \in {get_percentiles(
                               S.histograms[_key_to_histogram_tuple(
                                   _key_dict("response_duration", TheBackend, zone,
                                             NoAttr, "s", 10))],
                               S.timeseries, QueryPercentiles, interval)} :
                 /\ pq' = [kind |-> "zone_percentiles", zone |-> zone, second |-> second,
                           num_requests |->
                               get_diff(S.timeseries[_key_dict("response_duration", TheBackend,
                                                               zone, NoAttr, "s", 10)].data,
                                        interval, FALSE).diff,
                           result |-> [kind |-> result.kind, values |-> result.values]]
                 /\ log' = result.log
    /\ UNCHANGED <<test_mode, args, iteration_order, clock, t_next, step, pc, timeseries, histograms,
                   t_prev, ms_file, ms_tmp, ckpt_file, ckpt_tmp, inflight,
                   ticks, versions, restarts>>

NextPercentiles ==
    \/ Query
    \/ QueryZone

SpecPercentiles == InitProduction /\ [][NextPercentiles]_vars

(***************************************************************************)
(* SpecSum: TimeSeries.sum on three series whose latest samples carry the  *)
(* same timestamp, merged in every order and grouping.                     *)
(***************************************************************************)

\* The values of the merged samples: small counters, (1 << 52) - 1 and the
\* floats 0.1, 0.2 and 0.3 of response_duration_sum series
SumValues ==
    {V(0), V(1), V(7), NearLimit,
     FloatSeconds(V(100)), FloatSeconds(V(200)), FloatSeconds(V(300))}

\* A series of a counter that add(t, value) has given one sample at 60 s
SumSeries(value) == add(<<>>, 60000, value)

\* The target before the merges: empty, or one sample of the same timestamp
SumTargets == {<<>>, SumSeries(V(5))}

\* target.sum(x); target.sum(y); target.sum(z)
SumFlat(target, x, y, z) == sum(sum(sum(target, x), y), z)

\* The orders of three series
SumOrders(a, b, c) ==
    {<<a, b, c>>, <<a, c, b>>, <<b, a, c>>, <<b, c, a>>, <<c, a, b>>, <<c, b, a>>}

\* The merges of three one-sample series into a target: flat is what the
\* target holds after the three are merged one by one, in each order;
\* grouped is what it holds after two of them have been merged into an
\* empty series first and that series is merged before or after the third.
Merge ==
    /\ pc = "start"
    /\ pq = NoQuery
    /\ \E a \in SumValues, b \in SumValues, c \in SumValues, target \in SumTargets :
          pq' = [kind |-> "sum", target |-> target, a |-> a, b |-> b, c |-> c,
                 flat |-> {SumFlat(target, SumSeries(o[1]), SumSeries(o[2]), SumSeries(o[3])) :
                              o \in SumOrders(a, b, c)},
                 grouped |->
                     {sum(sum(target,
                              sum(sum(<<>>, SumSeries(o[1])), SumSeries(o[2]))),
                          SumSeries(o[3])) : o \in SumOrders(a, b, c)}
                     \cup
                     {sum(sum(target, SumSeries(o[1])),
                          sum(sum(<<>>, SumSeries(o[2])), SumSeries(o[3]))) :
                              o \in SumOrders(a, b, c)}]
    /\ UNCHANGED <<test_mode, args, iteration_order, clock, t_next, step, pc, timeseries, histograms,
                   t_prev, ms_file, ms_tmp, ckpt_file, ckpt_tmp, log, inflight,
                   ticks, versions, restarts>>

SpecSum == InitProduction /\ [][Merge]_vars

(***************************************************************************)
(* SpecAggregateZones: State._aggregate_zones on the series one tick has   *)
(* updated, for every choice of the zones the backend publishes.           *)
(***************************************************************************)

\* The zones a backend can publish: status codes, integers outside
\* [100, 600), a cache zone that is summed into cache_other, a cache zone
\* that is not, a request method and a zone with the name of an aggregate
PublishedZones == <<"200", "404", "500", "503", "99", "600", "STALE", "HIT", "GET", "total">>

\* The requests_total data point _parse_zone creates for a zone
ZonePoint(zone) ==
    [key_dict |-> _key_dict("requests_total", TheBackend, zone, NoAttr, "requests", None),
     value |-> V(10)]

\* _aggregate_zones(updated_ts) after the data points of the zones chosen
\* have been created at 60 s: the zones chosen, the status_code_zones
\* returned and the zones of the series that extend updated_ts.
AggregateZones ==
    /\ pc = "start"
    /\ pq = NoQuery
    /\ \E chosen \in SUBSET Range(PublishedZones) :
          \E points \in {[i \in 1..Len(SelectSeq(PublishedZones, LAMBDA z : z \in chosen)) |->
                            ZonePoint(SelectSeq(PublishedZones, LAMBDA z : z \in chosen)[i])]} :
              \E R \in {_aggregate_zones(_create_data_point(EmptyStore, points, 60000),
                                         [i \in 1..Len(points) |-> points[i].key_dict])} :
                  pq' = [kind |-> "zones", zones |-> chosen,
                         status_code_zones |-> R.status_code_zones,
                         aggregates |-> {R.updated_ts[i].zone :
                                            i \in (Len(points) + 1)..Len(R.updated_ts)}]
    /\ UNCHANGED <<test_mode, args, iteration_order, clock, t_next, step, pc, timeseries, histograms,
                   t_prev, ms_file, ms_tmp, ckpt_file, ckpt_tmp, log, inflight,
                   ticks, versions, restarts>>

SpecAggregateZones == InitProduction /\ [][AggregateZones]_vars

(***************************************************************************)
(* SpecStartTime: _get_start_time on wall-clock times with fractional      *)
(* seconds and on several intervals.                                       *)
(***************************************************************************)

\* time.time() when the first t_next is computed, in ms: every quarter of
\* a second from 0 to 8 s, and the quarters around one and two minutes
StartTimes ==
    {250 * k : k \in 0..32} \cup {60000 + 250 * k : k \in -4..4}
        \cup {120000 + 250 * k : k \in -4..4}

\* --interval, in seconds
StartIntervals == {1, 2, 3, 5, 60}

\* t_next = _get_start_time(t, args.interval)
StartTime ==
    /\ pc = "start"
    /\ pq = NoQuery
    /\ \E now \in StartTimes, ival \in StartIntervals :
          pq' = [kind |-> "start", now |-> now, interval |-> ival,
                 result |-> _get_start_time(now, ival)]
    /\ UNCHANGED <<test_mode, args, iteration_order, clock, t_next, step, pc, timeseries, histograms,
                   t_prev, ms_file, ms_tmp, ckpt_file, ckpt_tmp, log, inflight,
                   ticks, versions, restarts>>

SpecStartTime == InitProduction /\ [][StartTime]_vars

(***************************************************************************)
(* typevalidator.  A Python object is the pair of the name of its type and *)
(* its content: <<"int", 1>>, <<"bool", TRUE>>, <<"float", ms>> (the float *)
(* ms / 1000), <<"str", "a">>, <<"type", "str">> (the class str),          *)
(* <<"list", items>>, <<"tuple", items>>, <<"dict", pairs>> with pairs the *)
(* sequence of the <<key, value>> of the dict in its order; no two keys of *)
(* a dict are equal.  A format is <<"ANY">>,                               *)
(* <<"type", name>>, <<"value", object>>, <<"list", items>> with the items *)
(* formats or the markers <<"ZERO_OR_MORE">> and <<"ONE_OR_MORE">>, or     *)
(* <<"dict", pairs>> with the keys <<"key", object>>, <<"OPTIONAL_KEY",    *)
(* object>> or <<"type", name>> (<<"type", "ANY">> for the class ANY).     *)
(* A validation gives "True", "False" or "ValidationError" (the exception  *)
(* raised).  Formats that are functions are not in the model.              *)
(***************************************************************************)

ZERO_OR_MORE == <<"ZERO_OR_MORE">>

ONE_OR_MORE == <<"ONE_OR_MORE">>

\* Context.error and Context.error2 followed by return False
ContextError(raise_error) == IF raise_error THEN "ValidationError" ELSE "False"

\* The number a bool, an int or a float is, in thousandths
Thousandths(o) ==
    IF o[1] = "float" THEN o[2]
    ELSE IF o[1] = "bool" THEN (IF o[2] THEN 1000 ELSE 0)
    ELSE 1000 * o[2]

\* a == b in Python: numbers compare by value whatever their types (1, 1.0
\* and True are equal), lists and tuples item by item, dicts by their items
\* in any order, strings and classes with their own kind only
RECURSIVE PyEq(_, _)
PyEq(a, b) ==
    LET Numeric(o) == o[1] \in {"int", "float", "bool"}
    IN  IF Numeric(a) /\ Numeric(b) THEN Thousandths(a) = Thousandths(b)
        ELSE IF a[1] # b[1] THEN FALSE
        ELSE IF a[1] \in {"list", "tuple"}
        THEN /\ Len(a[2]) = Len(b[2])
             /\ \A i \in 1..Len(a[2]) : PyEq(a[2][i], b[2][i])
        ELSE IF a[1] = "dict"
        THEN /\ Len(a[2]) = Len(b[2])
             /\ \A i \in 1..Len(a[2]) :
                   \E j \in 1..Len(b[2]) :
                       PyEq(a[2][i][1], b[2][j][1]) /\ PyEq(a[2][i][2], b[2][j][2])
        ELSE a[2] = b[2]

\* key in o, and o[key], for a dict o: the key that is equal to key
HasKey(o, key) == \E i \in 1..Len(o[2]) : PyEq(o[2][i][1], key)

GetItem(o, key) == o[2][CHOOSE i \in 1..Len(o[2]) : PyEq(o[2][i][1], key)][2]

RECURSIVE _validate(_, _, _)
RECURSIVE _validate_list(_, _, _)
RECURSIVE _validate_dict(_, _, _)

\* _validate_list(org_fmt, org_o, ctx), fmt and o being what is left of the
\* two lists: Loop is the outer while, Segment the while of a ZERO_OR_MORE
\* or ONE_OR_MORE segment of element type fmt[2].
_validate_list(fmt, o, raise_error) ==
    LET Loop(f, rest) == _validate_list(f, <<"list", rest>>, raise_error)
        Segment(rest) ==
            IF rest = <<>> THEN Loop(SubSeq(fmt, 3, Len(fmt)), rest)
            ELSE LET r == _validate(fmt[2], Head(rest), raise_error)
                 IN  IF r = "ValidationError" THEN r
                     ELSE IF r = "False"
                     THEN IF Len(fmt) > 2 THEN Loop(SubSeq(fmt, 3, Len(fmt)), rest)
                          ELSE "False"
                     ELSE _validate_list(<<ZERO_OR_MORE, fmt[2]>> \o SubSeq(fmt, 3, Len(fmt)),
                                         <<"list", Tail(rest)>>, raise_error)
    IN  IF o[1] # "list" THEN ContextError(raise_error)
        ELSE IF fmt = <<>>
        THEN IF o[2] = <<>> THEN "True" ELSE ContextError(raise_error)
        ELSE IF Head(fmt) \in {ZERO_OR_MORE, ONE_OR_MORE}
        THEN IF Len(fmt) = 1 THEN "ValidationError"
             ELSE IF o[2] = <<>>
             THEN IF Head(fmt) = ONE_OR_MORE THEN ContextError(raise_error)
                  ELSE Loop(SubSeq(fmt, 3, Len(fmt)), o[2])
             ELSE Segment(o[2])
        ELSE IF o[2] = <<>> THEN ContextError(raise_error)
        ELSE LET r == _validate(Head(fmt), Head(o[2]), raise_error)
             IN  IF r # "True" THEN r ELSE Loop(Tail(fmt), Tail(o[2]))

\* _validate_dict(fmt, o, ctx), fmt being the pairs of the format that are
\* left: one pass of the for loop over fmt.keys()
_validate_dict(fmt, o, raise_error) ==
    LET key == fmt[1][1]
        RECURSIVE Keys(_)
        \* for okey in o.keys(), for a key that is a type
        Keys(pairs) ==
            IF pairs = <<>> THEN "True"
            ELSE IF key[2] # "ANY"
                    /\ (pairs[1][1][1] = "type" \/ pairs[1][1][1] # key[2])
            THEN ContextError(raise_error)
            ELSE LET r == _validate(fmt[1][2], pairs[1][2], raise_error)
                 IN  IF r # "True" THEN r ELSE Keys(Tail(pairs))
        This ==
            IF key[1] = "OPTIONAL_KEY"
            THEN IF HasKey(o, key[2])
                 THEN _validate(fmt[1][2], GetItem(o, key[2]), raise_error)
                 ELSE "True"
            ELSE IF key[1] = "type" THEN Keys(o[2])
            ELSE IF ~HasKey(o, key[2]) THEN ContextError(raise_error)
            ELSE _validate(fmt[1][2], GetItem(o, key[2]), raise_error)
    IN  IF o[1] # "dict" THEN ContextError(raise_error)
        ELSE IF fmt = <<>> THEN "True"
        ELSE IF This # "True" THEN This
        ELSE _validate_dict(Tail(fmt), o, raise_error)

\* _validate that takes an int for a float.
_validate_numeric(fmt, o, raise_error) ==
    IF fmt[1] = "ANY" THEN "True"
    ELSE IF fmt[1] = "list" THEN _validate_list(fmt[2], o, raise_error)
    ELSE IF fmt[1] = "dict" THEN _validate_dict(fmt[2], o, raise_error)
    ELSE IF fmt[1] = "type"
    THEN IF fmt[2] # "ANY" /\ fmt[2] # o[1] /\ ~(fmt[2] = "float" /\ o[1] = "int")
         THEN ContextError(raise_error) ELSE "True"
    ELSE IF ~PyEq(fmt[2], o) THEN ContextError(raise_error)
    ELSE "True"

\* _validate(fmt, o, ctx).  type(o) of a class o is type, the name of no
\* format; a format that is a value is compared with Python's !=.
_validate(fmt, o, raise_error) ==
    IF fmt[1] = "ANY" THEN "True"
    ELSE IF fmt[1] = "list" THEN _validate_list(fmt[2], o, raise_error)
    ELSE IF fmt[1] = "dict" THEN _validate_dict(fmt[2], o, raise_error)
    ELSE IF fmt[1] = "type"
    THEN IF fmt[2] # "ANY" /\ fmt[2] # o[1] THEN ContextError(raise_error) ELSE "True"
    ELSE IF ~PyEq(fmt[2], o) THEN ContextError(raise_error)
    ELSE "True"

\* validate(fmt, o)
validate(fmt, o) == _validate(fmt, o, FALSE)

\* validate2(fmt, o)
validate2(fmt, o) == _validate(fmt, o, TRUE)

(***************************************************************************)
(* validate and validate2 side by side, on the formats and objects of      *)
(* test_validate: lists of one or two items or segments of int and str,    *)
(* dicts with a value key, an optional key and a key type, and the values  *)
(* and keys 1, 1.0 and True, which Python holds equal.                     *)
(***************************************************************************)

\* The list formats of one or two of: int, str, a segment of either
ValidateFormats ==
    LET Types == {<<"type", "int">>, <<"type", "str">>}
        Parts == {<<m, T>> : m \in {ZERO_OR_MORE, ONE_OR_MORE}, T \in Types}
                 \cup {<<T>> : T \in Types}
        X == <<"key", <<"str", "x">>>>
    IN  {<<"list", a>> : a \in Parts}
        \cup {<<"list", a \o b>> : a \in Parts, b \in Parts}
        \cup {<<"dict", <<>>>>, <<"dict", << <<X, <<"type", "int">>>> >>>>,
              <<"dict", << <<<<"type", "str">>, <<"type", "int">>>> >>>>,
              <<"dict", << <<<<"OPTIONAL_KEY", <<"str", "x">>>>, <<"type", "int">>>> >>>>,
              <<"dict", << <<X, <<"type", "int">>>>,
                           <<<<"type", "str">>, <<"type", "int">>>> >>>>,
              <<"dict", << <<<<"type", "ANY">>, <<"type", "int">>>> >>>>,
              <<"dict", << <<<<"key", <<"int", 1>>>>, <<"type", "int">>>> >>>>,
              <<"type", "int">>, <<"type", "float">>, <<"type", "bool">>,
              <<"value", <<"str", "s">>>>, <<"value", <<"int", 1>>>>}

\* The lists of up to three of 1 and 's', the numbers 1, 1.0, 1.5 and True,
\* 's', and the dicts over the keys 'x', 'y', 1, 1.0, True and str
ValidateObjects ==
    LET Elems == {<<"int", 1>>, <<"str", "s">>}
        Pair(k, v) == <<k, v>>
        X == <<"str", "x">>
        Y == <<"str", "y">>
    IN  {<<"list", s>> : s \in UNION {[1..n -> Elems] : n \in 0..3}}
        \cup {<<"int", 1>>, <<"float", 1000>>, <<"float", 1500>>, <<"bool", TRUE>>,
              <<"str", "s">>,
              <<"dict", <<Pair(<<"float", 1000>>, <<"int", 1>>)>>>>,
              <<"dict", <<Pair(<<"bool", TRUE>>, <<"int", 1>>)>>>>,
              <<"dict", <<Pair(<<"type", "str">>, <<"int", 1>>)>>>>,
              <<"dict", <<>>>>,
              <<"dict", <<Pair(X, <<"int", 1>>)>>>>,
              <<"dict", <<Pair(X, <<"str", "s">>)>>>>,
              <<"dict", <<Pair(Y, <<"int", 1>>)>>>>,
              <<"dict", <<Pair(X, <<"int", 1>>), Pair(Y, <<"int", 1>>)>>>>,
              <<"dict", <<Pair(X, <<"int", 1>>), Pair(<<"int", 1>>, <<"int", 1>>)>>>>}

\* validate(fmt, o) and validate2(fmt, o) on the same format and object
Validate ==
    /\ pc = "start"
    /\ pq = NoQuery
    /\ \E fmt \in ValidateFormats, o \in ValidateObjects :
          pq' = [kind |-> "validate", fmt |-> fmt, o |-> o,
                 validate |-> validate(fmt, o), validate2 |-> validate2(fmt, o)]
    /\ UNCHANGED <<test_mode, args, iteration_order, clock, t_next, step, pc, timeseries, histograms,
                   t_prev, ms_file, ms_tmp, ckpt_file, ckpt_tmp, log, inflight,
                   ticks, versions, restarts>>

SpecValidate == InitProduction /\ [][Validate]_vars

(***************************************************************************)
(* State.load on any content of the checkpoint file.  The content is       *)
(* <<"SyntaxError">> (text that is not Python), <<"ValueError">> (Python   *)
(* that is not a literal, as a name or a call) or <<"literal", d>> with d  *)
(* the object ast.literal_eval returns.  load of top of this module is the *)
(* case of a file that save wrote.                                         *)
(***************************************************************************)

\* CHECKPOINT_FMT
CHECKPOINT_FMT ==
    LET Key(s) == <<"key", <<"str", s>>>>
        Item(k, fmt) == <<k, fmt>>
        Str == <<"type", "str">>
        Float == <<"type", "float">>
    IN  <<"dict",
          <<Item(Key("timeseries"),
                 <<"list",
                   <<ZERO_OR_MORE,
                     <<"dict",
                       <<Item(Key("key_dict"),
                              <<"dict", <<Item(Key("name"), Str),
                                          Item(Key("backend"), Str),
                                          Item(Key("zone"), Str),
                                          Item(<<"OPTIONAL_KEY", <<"str", "le">>>>,
                                               Float)>>>>),
                         Item(Key("data"),
                              <<"list", <<ZERO_OR_MORE, <<"type", "tuple">>>>>>)>>>>>>>>),
            Item(Key("t_prev"), Float)>>>>

\* The key_dict of a series of a validated checkpoint, as the model holds it
KeyOf(key_dict) ==
    LET Attr(a, none) ==
            IF HasKey(key_dict, <<"str", a>>) THEN GetItem(key_dict, <<"str", a>>)[2]
            ELSE none
    IN  _key_dict(Attr("name", NoAttr), Attr("backend", NoAttr), Attr("zone", NoAttr),
                  Attr("direction", NoAttr), Attr("unit", NoAttr), Attr("le", None))

\* The value of a series that a number of a checkpoint is: an int, a bool
\* (an int that is kept as the bool it is) or a float
ValueOf(o) ==
    IF o[1] = "int" THEN V(o[2])
    ELSE IF o[1] = "bool" THEN [hi |-> 0, lo |-> IF o[2] THEN 1 ELSE 0, bool |-> TRUE]
    ELSE Seconds(o[2])

\* ts.add(*tup) for each tuple of d['data']: a tuple of two is (t, value), a
\* tuple of three also gives overflow_limit, any other length is a TypeError,
\* as is a value that is no number (value >= overflow_limit).  t is a
\* number, overflow_limit an int 2^k > 0: an int at or above it is masked
\* with overflow_limit - 1, which leaves value % overflow_limit, a float is
\* reduced with math.fmod.
RECURSIVE AddTuples(_, _)
AddTuples(data, tups) ==
    IF tups = <<>> THEN [data |-> data, raised |-> ""]
    ELSE LET tup == Head(tups)[2]
             limit == tup[3][2]
         IN  IF Len(tup) \notin {2, 3} \/ tup[2][1] \notin {"int", "bool", "float"}
             THEN [data |-> data, raised |-> "TypeError"]
             ELSE With(Thousandths(tup[1]), LAMBDA t :
                  With(ValueOf(tup[2]), LAMBDA value :
                      AddTuples(
                          IF Len(tup) = 2 THEN add(data, t, value)
                          ELSE DequeAppend(data,
                                   <<t,
                                     IF IsFloat(value)
                                     THEN IF FCmp(value, Whole(limit)) >= 0
                                          THEN FModPow2(value, BitLength(limit) - 1)
                                          ELSE value
                                     ELSE IF value.lo >= limit THEN V(value.lo % limit)
                                     ELSE value>>),
                          Tail(tups))))

\* The loop of load over d['timeseries']: unserialize, then store the series
\* under its key and create its histogram, until a series raises
RECURSIVE LoadLoop(_, _)
LoadLoop(S, tses) ==
    IF tses = <<>> THEN [S |-> S, raised |-> ""]
    ELSE With(AddTuples(<<>>, GetItem(Head(tses), <<"str", "data">>)[2]), LAMBDA ts :
             IF ts.raised # "" THEN [S |-> S, raised |-> ts.raised]
             ELSE With(KeyOf(GetItem(Head(tses), <<"str", "key_dict">>)), LAMBDA key :
                      LoadLoop([timeseries |->
                                    FunPut(S.timeseries, key,
                                           [key_dict |-> key, data |-> ts.data,
                                            n |-> IF key \in DOMAIN S.timeseries
                                                  THEN S.timeseries[key].n
                                                  ELSE Cardinality(DOMAIN S.timeseries) + 1]),
                                histograms |-> _create_histogram(S.histograms, <<key>>)],
                               Tail(tses))))

\* State.load() on a fresh State: the store, t_prev, the log kinds and the
\* exception that leaves load
load_data(file) ==
    LET Empty(kinds, raised) ==
            [S |-> EmptyStore, t_prev |-> -1000, log |-> kinds, raised |-> raised]
    IN  IF file.kind = "absent" THEN Empty({"warning"}, "")
        ELSE IF file.content[1] = "SyntaxError" THEN Empty({"exception"}, "")
        ELSE IF file.content[1] = "ValueError" THEN Empty({}, "ValueError")
        ELSE LET d == file.content[2]
             IN  IF validate2(CHECKPOINT_FMT, d) = "ValidationError"
                 THEN Empty({"exception"}, "")
                 ELSE With(LoadLoop(EmptyStore, GetItem(d, <<"str", "timeseries">>)[2]),
                           LAMBDA L :
                               [S |-> L.S,
                                t_prev |-> IF L.raised = ""
                                           THEN GetItem(d, <<"str", "t_prev">>)[2]
                                           ELSE -1000,
                                log |-> {}, raised |-> L.raised])

\* The contents of a checkpoint file: no file, text that does not parse, a
\* literal that is no dict, and the dicts of up to two series (one as save
\* writes it, one of a histogram bucket, and series with a key, a type or a
\* tuple changed: a value that is a bool, a float or a string, a time that
\* is an int, an overflow_limit of 4 after an int and after a float) with
\* t_prev a float, an int or missing.
CheckpointFiles ==
    LET Str(s) == <<"str", s>>
        Pair(k, v) == <<Str(k), v>>
        Dict(pairs) == <<"dict", pairs>>
        Floats(ts) == [i \in 1..Len(ts) |-> <<"float", ts[i]>>]
        Sample(t, v) == <<"tuple", <<<<"float", t>>, v>>>>
        KeyDict(zone, more) ==
            Dict(<<Pair("name", Str("requests_total")), Pair("backend", Str(TheBackend))>>
                 \o zone \o more)
        Zone200 == <<Pair("zone", Str("200"))>>
        Requests == <<Pair("unit", Str("requests"))>>
        Series(key_dict, data) ==
            Dict(<<Pair("key_dict", key_dict), Pair("data", <<"list", data>>)>>)
        One == <<Sample(60000, <<"int", 1>>)>>
        Bucket(le) ==
            Series(Dict(<<Pair("name", Str("response_duration")),
                          Pair("backend", Str(TheBackend)), Pair("zone", Str("200")),
                          Pair("le", le), Pair("unit", Str("s"))>>),
                   <<Sample(60000, <<"int", 1>>), Sample(120000, <<"int", 3>>)>>)
        SeriesSet ==
            {Series(KeyDict(Zone200, Requests), One),
             Series(KeyDict(Zone200, <<>>), <<Sample(60000, <<"int", 2>>)>>),
             Bucket(<<"float", 5>>),
             Bucket(<<"int", 1>>),
             Series(KeyDict(<<>>, Requests), One),
             Series(KeyDict(Zone200, Requests), <<<<"tuple", <<<<"float", 60000>>>>>>>>),
             Series(KeyDict(Zone200, Requests), <<Sample(60000, Str("x"))>>),
             Series(KeyDict(Zone200, Requests), <<Sample(60000, <<"bool", TRUE>>)>>),
             Series(KeyDict(Zone200, Requests),
                    <<<<"tuple", <<<<"int", 60>>, <<"float", 1500>>>>>>,
                      <<"tuple", <<<<"float", 120000>>, <<"float", 4500>>, <<"int", 4>>>>>>>>),
             Series(KeyDict(Zone200, Requests), <<<<"list", <<<<"float", 60000>>, <<"int", 1>>>>>>>>),
             Series(KeyDict(Zone200, Requests),
                    <<<<"tuple", <<<<"float", 60000>>, <<"int", 5>>, <<"int", 4>>>>>>>>)}
        Lists == UNION {[1..n -> SeriesSet] : n \in 0..2}
        Prevs == {<<Pair("t_prev", <<"float", 120000>>)>>,
                  <<Pair("t_prev", <<"int", 120>>)>>, <<>>}
    IN  {Absent, CompleteFile(<<"SyntaxError">>), CompleteFile(<<"ValueError">>),
         CompleteFile(<<"literal", <<"list", <<>>>>>>)}
        \cup {CompleteFile(<<"literal", Dict(<<Pair("timeseries", <<"list", tses>>)>> \o prev)>>) :
                 tses \in Lists, prev \in Prevs}

\* state.load() on a file of CheckpointFiles
Load ==
    /\ pc = "start"
    /\ pq = NoQuery
    /\ \E file \in CheckpointFiles :
          pq' = [kind |-> "load", file |-> file, load |-> load_data(file),
                 valid |-> IF file.kind = "absent" \/ file.content[1] # "literal"
                           THEN "False"
                           ELSE validate(CHECKPOINT_FMT, file.content[2])]
    /\ UNCHANGED <<test_mode, args, iteration_order, clock, t_next, step, pc, timeseries, histograms,
                   t_prev, ms_file, ms_tmp, ckpt_file, ckpt_tmp, log, inflight,
                   ticks, versions, restarts>>

SpecLoad == InitProduction /\ [][Load]_vars

(***************************************************************************)
(* SpecConfig: what main does with a command line, up to the loop.         *)
(***************************************************************************)

\* The first lines of run_vtsaggregator: the exception they raise, "" for
\* none.  ival is args.interval in seconds; margin is args.late_margin:
\* <<>> when the option is not given (None), <<ms>> for a margin of ms
\* milliseconds, which can be any number, -1 included.
CheckIntervals(ival, margin) ==
    IF ival <= 0 THEN "ConfigError"
    ELSE LET late == IF margin = <<>> THEN Min(10000, ival * 500) ELSE margin[1]
         IN  IF late <= 0 \/ late > ival * 500 THEN "ConfigError" ELSE ""

\* State.__init__(args): the exception it raises, "" for none.  urls is
\* args.urls, percentiles the numbers of --latency-percentiles in order.
State_init(urls, percentiles) ==
    IF \E i \in 1..Len(urls), j \in 1..Len(urls) : i < j /\ urls[i] = urls[j]
    THEN "ConfigError"
    ELSE IF \E i \in 1..Len(percentiles) : percentiles[i] < 0 \/ percentiles[i] > 100
    THEN "ConfigError"
    ELSE ""

\* main: run_vtsaggregator(args) inside try / except Exception, then
\* return 0.  raised is the exception that left run_vtsaggregator before the
\* loop, in the checks of the intervals, in State(args) or in state.load();
\* loop tells whether the loop is reached, log is what has been logged by
\* then (load's warning or exception, main's 'Exception not catched'),
\* exit_code is what sys.exit(main()) gets when main returns.
main(a) ==
    LET Outcome(raised, logged) ==
            [raised |-> raised, loop |-> raised = "",
             log |-> IF raised = "" THEN logged ELSE logged \cup {"not catched"},
             exit_code |-> 0]
    IN  IF CheckIntervals(a.interval, a.late_margin) # ""
        THEN Outcome(CheckIntervals(a.interval, a.late_margin), {})
        ELSE IF State_init(a.urls, a.latency_percentiles) # ""
        THEN Outcome(State_init(a.urls, a.latency_percentiles), {})
        ELSE With(load_data(a.checkpoint), LAMBDA L : Outcome(L.raised, L.log))

\* What --checkpoint can name when the program starts: no file, text that
\* does not parse, a name in the place of a literal, a list, and the file
\* that save writes for an empty store
ConfigCheckpoints ==
    {Absent, CompleteFile(<<"SyntaxError">>), CompleteFile(<<"ValueError">>),
     CompleteFile(<<"literal", <<"list", <<>>>>>>),
     CompleteFile(<<"literal",
                    <<"dict", << <<<<"str", "timeseries">>, <<"list", <<>>>>>>,
                                 <<<<"str", "t_prev">>, <<"float", -1000>>>> >>>>>>)}

\* The command lines of SpecConfig, with the checkpoint file they name
ConfigArgs ==
    [interval : {-1, 0, 1, 60},
     late_margin : {<<>>, <<-1000>>, <<-1>>, <<0>>, <<500>>, <<30000>>, <<30500>>},
     latency_percentiles : {<<0, 50, 99, 100>>, <<50, 101>>, <<-5>>, <<100>>},
     urls : {<<1>>, <<1, 2>>, <<1, 2, 1>>},
     checkpoint : ConfigCheckpoints]

Main ==
    /\ pc = "start"
    /\ pq = NoQuery
    /\ \E a \in ConfigArgs :
          \E result \in {main(a)} :
              /\ pq' = [kind |-> "config", args |-> a, result |-> result]
              /\ log' = result.log
    /\ UNCHANGED <<test_mode, args, iteration_order, clock, t_next, step, pc, timeseries, histograms,
                   t_prev, ms_file, ms_tmp, ckpt_file, ckpt_tmp, inflight,
                   ticks, versions, restarts>>

SpecConfig == InitProduction /\ [][Main]_vars

(***************************************************************************)
(* TimeSeries.get_diff and State._get_timeseries_diff on series of up to   *)
(* two samples: the older at 60 s, the latest earlier, at the same time or *)
(* later by up to more than 2.5 intervals, for intervals of 1 and 60 s.    *)
(***************************************************************************)

\* The series: data is what the deque holds
DiffSeries ==
    LET Values == {V(0), V(5), V(7)}
        Gaps == {-60000, 0, 1000, 2500, 2501, 60000, 150000, 150001}
    IN  {<<>>} \cup {<<<<60000, v>>>> : v \in Values}
        \cup {<<<<60000, v>>, <<60000 + gap, w>>>> : v \in Values, w \in Values, gap \in Gaps}

\* ts.get_diff(interval, mutable) on a series, and
\* state._get_timeseries_diff(key_dict, mutable) on a store that holds the
\* series under key_dict (stored) or holds nothing
Diff ==
    /\ pc = "start"
    /\ pq = NoQuery
    /\ \E data \in DiffSeries, ival \in {1, 60}, mutable \in BOOLEAN, stored \in BOOLEAN :
          \E key \in {CountKey(TheBackend, "200")} :
          \E S \in {IF stored
                     THEN [timeseries |->
                              FunPut(<<>>, key, [key_dict |-> key, data |-> data, n |-> 1]),
                           histograms |-> <<>>]
                     ELSE EmptyStore} :
             pq' = [kind |-> "diff", data |-> data, interval |-> ival,
                    mutable |-> mutable, stored |-> stored,
                    get_diff |-> get_diff(data, ival, mutable),
                    store_diff |-> _get_timeseries_diff(S, key, mutable, ival)]
    /\ UNCHANGED <<test_mode, args, iteration_order, clock, t_next, step, pc, timeseries, histograms,
                   t_prev, ms_file, ms_tmp, ckpt_file, ckpt_tmp, log, inflight,
                   ticks, versions, restarts>>

SpecDiff == InitProduction /\ [][Diff]_vars

(***************************************************************************)
(* TimeSeries.sum(other) case by case.  self and other are series of a     *)
(* zone, whose samples were stored by add, or aggregates, whose latest     *)
(* sample may have grown over 2^52 by sums; the values are ints or the     *)
(* floats of a response_duration_sum series.                               *)
(***************************************************************************)

\* The series of up to two samples
SumSeriesSet ==
    LET values == {V(1), V(7), NearLimit, FloatSeconds(V(100))}
        late == {VAdd(NearLimit, V(7))}
    IN  {<<>>} \cup {<<<<t, v>>>> : t \in {120000, 180000}, v \in values \cup late}
        \cup {<<<<t, v>>, <<t + 60000, w>>>> :
                 t \in {60000, 120000}, v \in values, w \in values \cup late}

\* The pairs <<self, other>>
SumOperands == SumSeriesSet \X SumSeriesSet

\* self.sum(other): sum is self._data after the call, other_after is
\* other._data, which the method reads and never assigns
SumOther ==
    /\ pc = "start"
    /\ pq = NoQuery
    /\ \E o \in SumOperands :
          pq' = [kind |-> "sum_other", self |-> o[1], other |-> o[2],
                 sum |-> sum(o[1], o[2]), other_after |-> o[2]]
    /\ UNCHANGED <<test_mode, args, iteration_order, clock, t_next, step, pc, timeseries, histograms,
                   t_prev, ms_file, ms_tmp, ckpt_file, ckpt_tmp, log, inflight,
                   ticks, versions, restarts>>

SpecSumOther == InitProduction /\ [][SumOther]_vars

(***************************************************************************)
(* _aggregate_zones on the series of one tick.  The zones published are a  *)
(* subset of AggregatedZones; each has the five series _parse_zone creates *)
(* for a zone with one bucket (le = 5 ms): the bucket, the float           *)
(* response_duration_sum, bytes in, bytes out and requests_total.  The     *)
(* tick is at 120 s; before it                                             *)
(* the store is empty or holds the series of a tick at 60 s in which every *)
(* zone was published.                                                     *)
(***************************************************************************)

AggregatedZones == <<"200", "404", "500", "503", "STALE", "UPDATING", "GET">>

\* The data points _parse_zone creates for the zone at place i, in its
\* order, when the zone has counted value requests in 10 * value ms, with
\* 2 * value bytes in, 3 * value bytes out and value + 1 in its bucket
AggregatedPoints(i, value) ==
    _parse_zone(TheBackend,
                Zone(AggregatedZones[i], value, 10 * value, 2 * value, 3 * value,
                     <<5>>, <<value + 1>>).stats,
                AggregatedZones[i]).points

\* One tick of the parse and aggregate steps of aggregate_backend_data: the
\* data points are created in the order of places, then _aggregate_zones
\* runs on the list of their series
AggregatedTick(S, places, t, value) ==
    LET Run(points) ==
            _aggregate_zones(_create_data_point(S, points, t),
                             [i \in 1..Len(points) |-> points[i].key_dict])
    IN  Run(Flatten([i \in 1..Len(places) |-> AggregatedPoints(places[i], value * places[i])]))

\* _aggregate_zones in the tick at 120 s, the zones taken in the order of
\* the document and in the reverse order
AggregateSeries ==
    /\ pc = "start"
    /\ pq = NoQuery
    /\ \E chosen \in SUBSET (1..Len(AggregatedZones)), before \in BOOLEAN :
          \E S \in {IF before
                     THEN AggregatedTick(EmptyStore, [i \in 1..Len(AggregatedZones) |-> i],
                                         60000, 1).S
                     ELSE EmptyStore} :
          \E places \in {SortSet(chosen)} :
          \E R \in {AggregatedTick(S, places, 120000, 10)},
             Q \in {AggregatedTick(S, [i \in 1..Len(places) |-> places[Len(places) + 1 - i]],
                                   120000, 10)} :
             pq' = [kind |-> "aggregate", chosen |-> chosen, before |-> before,
                    store |-> S.timeseries,
                    timeseries |-> R.S.timeseries,
                    reversed |-> Q.S.timeseries,
                    updated_ts |-> R.updated_ts,
                    parsed |-> 5 * Len(places)]
    /\ UNCHANGED <<test_mode, args, iteration_order, clock, t_next, step, pc, timeseries, histograms,
                   t_prev, ms_file, ms_tmp, ckpt_file, ckpt_tmp, log, inflight,
                   ticks, versions, restarts>>

SpecAggregate == InitProduction /\ [][AggregateSeries]_vars

(***************************************************************************)
(* SpecWake: production, the sleeps ending anywhere in the late margin:    *)
(* shortly after t_next, in the middle of the margin, so late that the     *)
(* fetch ends after the deadline, and at the deadline.                     *)
(***************************************************************************)
WakeInMargin == WakeDelays \cup {late_margin \div 2}

NextWake ==
    \/ Start
    \/ Sleep(WakeInMargin)
    \/ Missed
    \/ Scrape(ProdAnswers)

SpecWake == InitShort /\ [][NextWake]_vars


(***************************************************************************)
(* SpecBackends: two URLs.  In production both are fetched in every tick   *)
(* and each fetch can fail, give a payload that does not decode or a       *)
(* snapshot with a faulty zone 200; in test mode the URLs are snapshot     *)
(* files of one directory, one per tick.                                   *)
(***************************************************************************)

\* serverZones of the n-th snapshot of a backend: zones 200 and GET with
\* counters that rise from snapshot to snapshot, the first bucket of zone
\* 200 by more each time.  kind names what is wrong
\* with zone 200: "mismatch" (one counter for two bucket edges), "missing"
\* (no key inBytes), "bad" (inBytes is not a number), "bad_sum"
\* (requestMsecCounter is not a number); anything else is a sound snapshot.
ErrorZones(kind, n) ==
    LET z200 == Zone("200", 100 * n, 5000 * n, 1000 * n, 2000 * n,
                     <<1, 10>>, <<10 * n * n, 100 * n>>)
        zGET == Zone("GET", 10 * n, 700 * n, 100 * n, 300 * n, <<10>>, <<10 * n>>)
    IN  CASE kind = "mismatch" -> <<[z200 EXCEPT !.stats.counters = <<V(100 * n)>>], zGET>>
          [] kind = "missing" -> <<[z200 EXCEPT !.stats.missing = {"inBytes"}], zGET>>
          [] kind = "bad" -> <<[z200 EXCEPT !.stats.bad = {"inBytes"}], zGET>>
          [] kind = "bad_sum" ->
                 <<[z200 EXCEPT !.stats.bad = {"requestMsecCounter"}], zGET>>
          [] OTHER -> <<z200, zGET>>

\* What the two URLs can answer in one tick: at most one of them fails, or
\* both requests time out.  "timeout", "http_error" and "status" are the
\* three ways fetch_backend_data gives up a URL.
BackendAnswers ==
    LET kinds == {"ok", "timeout", "http_error", "status", "invalid_utf8",
                  "invalid_json", "no_serverZones", "mismatch", "missing", "bad",
                  "bad_sum"}
    IN  {<<k, "ok">> : k \in kinds} \cup {<<"ok", k>> : k \in kinds}
            \cup {<<"timeout", "timeout">>}

\* The number of ticks of a run in which BackendAnswers can give anything
\* but two sound snapshots
MaxFaults == 1

\* The ticks of the run so far in which a URL did not answer with a sound
\* snapshot
FaultyTicks ==
    {i \in 1..Len(ticks) : ticks[i].kind = "scrape" /\ ticks[i].answer # <<"ok", "ok">>}

\* What the two URLs can answer in the next tick of the run: any pair of
\* BackendAnswers while the run has had fewer than MaxFaults faulty ticks,
\* two sound snapshots after that
BackendAnswersNow ==
    IF Cardinality(FaultyTicks) < MaxFaults THEN BackendAnswers ELSE {<<"ok", "ok">>}

\* fetch_backend_data(urls, args) in production for the answers the URLs
\* give, the n-th of the run: the (backend, data) pairs of the URLs whose
\* request succeeded, in the order of urls.  The backend of an http URL is
\* the URL.
fetch_backend_data(urls, answers, n) ==
    LET backends == <<TheBackend, "b2">>
        item(i) ==
            IF answers[i] \in {"invalid_utf8", "invalid_json", "no_serverZones"}
            THEN [backend |-> backends[urls[i]], kind |-> answers[i]]
            ELSE [backend |-> backends[urls[i]], kind |-> "json",
                  stats |-> [nowMsec |-> None,
                             serverZones |-> ErrorZones(answers[i], n)]]
        fetched == {i \in 1..Len(urls) :
                       answers[i] \notin {"timeout", "http_error", "status"}}
    IN  [j \in 1..Cardinality(fetched) |->
            item(CHOOSE i \in fetched : Cardinality({k \in fetched : k < i}) = j - 1)]

\* t_next <= t < t_deadline in production with args.urls: fetch every URL,
\* aggregate, save
ScrapeBackends(catalogue) ==
    /\ pc = "loop"
    /\ ~test_mode
    /\ clock >= t_next
    /\ clock < t_next + late_margin
    /\ \E answers \in catalogue, duration \in FetchDurations :
          /\ Tick(clock, args.urls, fetch_backend_data(args.urls, answers, step + 1),
                  answers, clock + duration >= t_next + late_margin,
                  (IF \E i \in 1..Len(answers) : answers[i] \in {"timeout", "http_error"}
                   THEN {"exception"} ELSE {})
                  \cup (IF \E i \in 1..Len(answers) : answers[i] = "status"
                        THEN {"error"} ELSE {}))
          /\ clock' = clock + duration
    /\ UNCHANGED <<test_mode, args, ms_tmp, ckpt_tmp, inflight, versions, restarts, pq>>

InitBackends ==
    /\ test_mode \in BOOLEAN
    /\ args = [urls |-> <<1, 2>>, test_limit |-> short_limit]
    /\ iteration_order = <<>>
    /\ clock \in StartClocks
    /\ t_next = 0
    /\ step = 0
    /\ pc = "start"
    /\ timeseries = <<>>
    /\ histograms = <<>>
    /\ t_prev = -1000
    /\ ms_file = Absent
    /\ ms_tmp = Absent
    /\ ckpt_file = Absent
    /\ ckpt_tmp = Absent
    /\ log = {}
    /\ inflight = NoInflight
    /\ ticks = <<>>
    /\ versions = [ms |-> <<>>, ckpt |-> <<>>]
    /\ restarts = 0
    /\ pq = NoQuery

NextBackends ==
    \/ Start
    \/ Sleep(OnTime)
    \/ ScrapeBackends(BackendAnswersNow)
    \/ TestStep(TestFiles)
    \/ TestEnd

SpecBackends == InitBackends /\ [][NextBackends]_vars

(***************************************************************************)
(* SpecRestart: production, every sleep on time, against a backend that    *)
(* fails (0) or publishes four zones with outBytes near 1 << 52 (7); the   *)
(* process can be killed while it sleeps and started again.                *)
(***************************************************************************)
NextRestart ==
    \/ Start
    \/ Sleep(OnTime)
    \/ Scrape({0, 7})
    \/ Crash

SpecRestart == InitProduction /\ [][NextRestart]_vars

(***************************************************************************)
(* SpecHuge: production against a backend whose bucket counters can rise   *)
(* to (1 << 52) - 1 within a tick.                                         *)
(***************************************************************************)

NextHuge ==
    \/ Start
    \/ Sleep(OnTime)
    \/ Scrape({11, 9, 10})

SpecHuge == InitProduction /\ [][NextHuge]_vars

(***************************************************************************)
(* SpecTop: _dict_inserted_in_top_order on the mappings that               *)
(* _get_backend_metrics fills for a backend: up to three cache zones in    *)
(* any insertion order, each with the count of the interval or None;       *)
(* among the counts are 2^31 - 1 and two counts just below 1 << 52.        *)
(***************************************************************************)

\* The values of the mappings: None, and the counts 0, 3, 7, 2^31 - 1,
\* 2^52 - 2 and 2^52 - 1
TopValues ==
    {[none |-> TRUE, diff |-> V(0)]}
        \cup {[none |-> FALSE, diff |-> v] :
                 v \in {V(0), V(3), V(7), V(2147483647),
                        [hi |-> 1, lo |-> -2], [hi |-> 1, lo |-> -1]}}

\* The mappings handed to _dict_inserted_in_top_order: the items in
\* insertion order, no key twice, a value None when the zone has no diff
TopInputs ==
    {d \in UNION {[1..n -> {"HIT", "MISS", "STALE"} \X TopValues] : n \in 0..3} :
        \A i, j \in 1..Len(d) : i # j => d[i][1] # d[j][1]}

TopOrder ==
    /\ pc = "start"
    /\ pq = NoQuery
    /\ \E d \in TopInputs :
           pq' = [kind |-> "top", d |-> d, result |-> _dict_inserted_in_top_order(d)]
    /\ UNCHANGED <<test_mode, args, iteration_order, clock, pc, t_next, step, timeseries, histograms,
                   t_prev, ms_file, ms_tmp, ckpt_file, ckpt_tmp, log, inflight,
                   ticks, versions, restarts>>

NextTop == TopOrder

SpecTop == InitProduction /\ [][NextTop]_vars
(***************************************************************************)
(* What the properties read off a state                                    *)
(***************************************************************************)

\* The scrapes among the loop iterations so far, oldest first
Scrapes == SelectSeq(ticks, LAMBDA e : e.kind = "scrape")

\* The latest scrape, the one before it and the one before that
Latest == Scrapes[Len(Scrapes)]

Before == Scrapes[Len(Scrapes) - 1]

BeforeThat == Scrapes[Len(Scrapes) - 2]

\* The record of a zone in the milliseconds file
OutZone(zone) == ms_file.content[TheBackend].metrics.zones[ZONE_TO_MILLISECONDS(zone)]

\* The label set of a series of the model's backend that has no le
RefKey(name, zone, direction, unit) ==
    [name |-> name, backend |-> TheBackend, zone |-> zone,
     direction |-> direction, unit |-> unit, le |-> None]

\* The four series a zone's record is projected from
ProjectedKeys(zone) ==
    {RefKey("bytes", zone, "out", "bytes"), RefKey("bytes", zone, "in", "bytes"),
     RefKey("requests_total", zone, NoAttr, "requests"),
     RefKey("response_duration_sum", zone, NoAttr, "s")}

\* The diff between the two stored samples of a series: unavailable when
\* the store has no such series, when the series holds one sample, when the
\* samples are more than 2.5 intervals apart and when the later value is
\* lower; otherwise the later value minus the earlier one, an int or a float
StoredDiff(key) ==
    IF key \notin DOMAIN timeseries THEN [none |-> TRUE]
    ELSE IF Len(timeseries[key].data) # 2 THEN [none |-> TRUE]
    ELSE IF GapTooLarge(timeseries[key].data[2][1], timeseries[key].data[1][1], interval)
    THEN [none |-> TRUE]
    ELSE IF IsNeg(Minus(timeseries[key].data[2][2], timeseries[key].data[1][2]))
    THEN [none |-> TRUE]
    ELSE [none |-> FALSE,
          diff |-> Minus(timeseries[key].data[2][2], timeseries[key].data[1][2])]

\* The output number of a diff of an integer series, null when unavailable
DiffNumber(d) == IF d.none THEN None ELSE VNum(d.diff)

\* round(sum_s * 1000 / n) in floats, for the float sum_s and the int n
RoundedMs(sum_s, n) == IntNum(FRoundInt(FDiv(FMul(sum_s, Whole(1000)), FOfInt(n))))

\* The zones of the store whose record in the milliseconds file is named ms
StoreZones(ms) ==
    {key.zone : key \in {k \in DOMAIN timeseries : ZONE_TO_MILLISECONDS(k.zone) = ms}}

\* The record in the milliseconds file of the zone is projected from the
\* stored samples of the zone's four series
ZoneProjected(zone) ==
    LET count == StoredDiff(RefKey("requests_total", zone, NoAttr, "requests"))
        sum_s == StoredDiff(RefKey("response_duration_sum", zone, NoAttr, "s"))
    IN  /\ OutZone(zone).count = DiffNumber(count)
        /\ OutZone(zone).bytes = DiffNumber(StoredDiff(RefKey("bytes", zone, "out", "bytes")))
        /\ OutZone(zone).bytes_in = DiffNumber(StoredDiff(RefKey("bytes", zone, "in", "bytes")))
        /\ OutZone(zone).sum =
              IF sum_s.none THEN None ELSE RoundedMs(float(sum_s.diff), IntOf(1))
        /\ OutZone(zone).avg =
              IF sum_s.none \/ count.none THEN None
              ELSE RoundedMs(float(sum_s.diff), IntMax(IntOf(1), VInt(count.diff)))

\* The counters of the only zone of a snapshot of zone 200
Counters(answer) == ServerZones(answer)[1].stats

\* All five numbers of a zone's record are null
AllNull(stats) ==
    /\ stats.count = None
    /\ stats.sum = None
    /\ stats.avg = None
    /\ stats.bytes = None
    /\ stats.bytes_in = None

\* No rate field of a zone's record carries a value
NoRateValue(stats) == \A name \in DOMAIN stats.rate : stats.rate[name] = None

\* The latest two scrapes are one interval apart
OneIntervalApart == Latest.t - Before.t = interval * 1000

\* The latest two scrapes are at most 2.5 intervals apart
WithinGap(later, earlier) == 2 * (later.t - earlier.t) <= 5 * interval * 1000

(***************************************************************************)
(* C1: per-zone projection                                                 *)
(***************************************************************************)

\* C1: after every scrape the milliseconds file has a record for every zone
\* updated in the tick (zone 200 and its aggregates 2xx and total), and each
\* record has count, bytes and bytes_in equal to the diff between the two
\* stored samples of the zone's requests_total, bytes/out and bytes/in
\* series, sum = round(sum_s * 1000) and avg = round(sum_s * 1000 /
\* max(1, count)) for the float diff sum_s of response_duration_sum, each
\* null where a diff it is computed from is unavailable; the first scrape on
\* an empty store gives five nulls and no percentile key (S1); snapshot S1
\* followed one interval later by snapshot S2 gives count 100, sum 10000,
\* avg 100, bytes 4000, bytes_in 2000, a count rate of 1.66 and a sum rate
\* of 166.66 (S2); 2 requests that took 9 ms between two scrapes give
\* count 2, sum 9 and avg 5.
C1_Projection ==
    (Len(Scrapes) > 0 /\ Latest.raised = "") =>
        /\ ms_file.kind = "complete"
        /\ DOMAIN ms_file.content[TheBackend].metrics.zones = {"200", "2xx", "total"}
        /\ \A ms \in DOMAIN ms_file.content[TheBackend].metrics.zones :
              /\ StoreZones(ms) # {}
              /\ \A zone \in StoreZones(ms) : ZoneProjected(zone)
        /\ Len(Scrapes) = 1 =>
              \A zone \in {"200", "2xx", "total"} :
                  /\ AllNull(OutZone(zone))
                  /\ DOMAIN OutZone(zone).pct = {}
        /\ (/\ Len(Scrapes) >= 2
            /\ Before.answer = 1
            /\ Latest.answer = 2
            /\ OneIntervalApart) =>
              \A zone \in {"200", "2xx", "total"} :
                  /\ OutZone(zone).count = 100
                  /\ OutZone(zone).sum = 10000
                  /\ OutZone(zone).avg = 100
                  /\ OutZone(zone).bytes = 4000
                  /\ OutZone(zone).bytes_in = 2000
                  /\ OutZone(zone).rate["count"] = 166
                  /\ OutZone(zone).rate["sum"] = 16666
        /\ (/\ Len(Scrapes) >= 2
            /\ Before.answer = 1
            /\ Latest.answer = 12
            /\ WithinGap(Latest, Before)) =>
              \A zone \in {"200", "2xx", "total"} :
                  /\ OutZone(zone).count = 2
                  /\ OutZone(zone).sum = 9
                  /\ OutZone(zone).avg = 5
                  /\ OutZone(zone).bytes = 123
                  /\ OutZone(zone).bytes_in = 69

\* Snapshot S2 has been scraped one interval after snapshot S1 and the
\* records of zone 200 and of its aggregates count the 100 requests in
\* between.
C1_Witness ==
    /\ Len(Scrapes) >= 2
    /\ Before.answer = 1
    /\ Latest.answer = 2
    /\ OneIntervalApart
    /\ ms_file.kind = "complete"
    /\ \A zone \in {"200", "2xx", "total"} :
          /\ OutZone(zone).count = 100
          /\ OutZone(zone).bytes = 4000
          /\ OutZone(zone).avg = 100

\* 2 requests that took 9 ms have been counted between two scrapes: the
\* float diff of response_duration_sum gives sum 9 and avg 5.
C1_WitnessFloat ==
    /\ Len(Scrapes) >= 2
    /\ Before.answer = 1
    /\ Latest.answer = 12
    /\ ms_file.kind = "complete"
    /\ OutZone("200").count = 2
    /\ OutZone("200").sum = 9
    /\ OutZone("200").avg = 5

(***************************************************************************)
(* C2: aggregate zone counts                                               *)
(***************************************************************************)

\* The zones of a snapshot
ZoneNames(answer) == {ServerZones(answer)[i].zone : i \in 1..Len(ServerZones(answer))}

\* The status-code zones in [100, 600) of a snapshot
StatusZones(answer) ==
    {z \in ZoneNames(answer) : int(z) # None /\ int(z) >= 100 /\ int(z) < 600}

\* No counter of a zone's object is lower in new than in old
NoCounterLower(old, new) ==
    /\ ~VIsNeg(VSub(new.requestCounter, old.requestCounter))
    /\ ~VIsNeg(VSub(new.requestMsecCounter, old.requestMsecCounter))
    /\ ~VIsNeg(VSub(new.inBytes, old.inBytes))
    /\ ~VIsNeg(VSub(new.outBytes, old.outBytes))
    /\ \A i \in 1..Len(new.counters) : ~VIsNeg(VSub(new.counters[i], old.counters[i]))

\* Snapshot later publishes the zones of snapshot earlier, none of them
\* with a counter that is lower
SameZonesNoDecrease(earlier, later) ==
    /\ earlier # 0
    /\ later # 0
    /\ ZoneNames(earlier) = ZoneNames(later)
    /\ \A i \in 1..Len(ServerZones(earlier)), j \in 1..Len(ServerZones(later)) :
          ServerZones(earlier)[i].zone = ServerZones(later)[j].zone =>
              NoCounterLower(ServerZones(earlier)[i].stats, ServerZones(later)[j].stats)

\* The sum of the output counts of a set of zones
RECURSIVE SumCounts(_)
SumCounts(zones) ==
    IF zones = {} THEN 0
    ELSE LET z == CHOOSE x \in zones : TRUE
         IN  OutZone(z).count + SumCounts(zones \ {z})

\* The latest two scrapes are consecutive ticks that publish the same zones
\* with no counter decreasing
ConsecutiveSameZones ==
    /\ Len(Scrapes) >= 2
    /\ Latest.raised = ""
    /\ OneIntervalApart
    /\ SameZonesNoDecrease(Before.answer, Latest.answer)

\* C2: over two consecutive ticks that publish the same zones with no
\* counter decreasing, the count of every constituent zone is available, the
\* count of total is the sum of the counts of the status-code zones in
\* [100, 600), 503 included, the count of 5xx is the sum of the counts of
\* the zones with hundreds digit 5 other than 503, and the count of
\* cache_other is the sum of the counts of the published zones among
\* EXPIRED, REVALIDATED, SCARCE, STALE, UPDATING; with 500 and 503 rising by
\* 3, STALE by 2 and UPDATING by 5 that is 5xx = 3, 503 = 3, total = 6,
\* cache_other = 7.
C2_AggregateCounts ==
    ConsecutiveSameZones =>
        /\ \A z \in ZoneNames(Latest.answer) : OutZone(z).count # None
        /\ OutZone("total").count = SumCounts(StatusZones(Latest.answer))
        /\ OutZone("5xx").count =
              SumCounts({z \in StatusZones(Latest.answer) :
                            int(z) \div 100 = 5 /\ z # "503"})
        /\ OutZone("cache_other").count =
              SumCounts(ZoneNames(Latest.answer) \cap CACHE_OTHER_ZONES)
        /\ (Before.answer = 4 /\ Latest.answer = 5) =>
              /\ OutZone("5xx").count = 3
              /\ OutZone("503").count = 3
              /\ OutZone("total").count = 6
              /\ OutZone("cache_other").count = 7

\* The second of the two snapshots has been scraped one interval after the
\* first and the record of total counts the 6 requests of 500 and 503.
C2_Witness ==
    /\ ConsecutiveSameZones
    /\ Before.answer = 4
    /\ Latest.answer = 5
    /\ OutZone("500").count = 3
    /\ OutZone("total").count = 6

(***************************************************************************)
(* C3: counter reset and resynchronisation                                 *)
(***************************************************************************)

\* Every counter of zone 200 is lower in snapshot later than in earlier
Reset(earlier, later) ==
    /\ VIsNeg(VSub(Counters(later).requestCounter, Counters(earlier).requestCounter))
    /\ VIsNeg(VSub(Counters(later).requestMsecCounter, Counters(earlier).requestMsecCounter))
    /\ VIsNeg(VSub(Counters(later).inBytes, Counters(earlier).inBytes))
    /\ VIsNeg(VSub(Counters(later).outBytes, Counters(earlier).outBytes))
    /\ \A i \in 1..Len(Counters(later).counters) :
          VIsNeg(VSub(Counters(later).counters[i], Counters(earlier).counters[i]))

\* What the record of zone 200 and the store hold after a scrape that
\* found the counters reset
Resynchronised ==
    /\ AllNull(OutZone("200"))
    /\ NoRateValue(OutZone("200"))
    /\ DOMAIN OutZone("200").pct = {}
    /\ \A key \in ProjectedKeys("200") :
          /\ key \in DOMAIN timeseries
          /\ Len(timeseries[key].data) = 1
          /\ timeseries[key].data[1][1] = Latest.t
    /\ timeseries[RefKey("requests_total", "200", NoAttr, "requests")].data[1][2]
          = Counters(Latest.answer).requestCounter

\* The record of zone 200 holds the diffs between the latest snapshot and
\* the one before it
DiffsAgainstBefore ==
    /\ OutZone("200").count =
          VNum(VSub(Counters(Latest.answer).requestCounter,
                    Counters(Before.answer).requestCounter))
    /\ OutZone("200").sum =
          VNum(VSub(Counters(Latest.answer).requestMsecCounter,
                    Counters(Before.answer).requestMsecCounter))
    /\ OutZone("200").bytes =
          VNum(VSub(Counters(Latest.answer).outBytes, Counters(Before.answer).outBytes))
    /\ OutZone("200").bytes_in =
          VNum(VSub(Counters(Latest.answer).inBytes, Counters(Before.answer).inBytes))

\* C3 as the spec states it: after a scrape that finds the counters of zone
\* 200 lower than the previous scrape did, the five numbers are null, no
\* rate carries a value, no percentile key is emitted and each of the four
\* projected series holds the latest sample only; and after the scrape
\* that follows such a scrape with counters that are not lower, the diffs
\* are those against the sample of the reset.
C3_ResetAnyGap ==
    /\ (Len(Scrapes) >= 2 /\ Reset(Before.answer, Latest.answer)) => Resynchronised
    /\ (/\ Len(Scrapes) >= 3
        /\ Reset(BeforeThat.answer, Before.answer)
        /\ NoCounterLower(Counters(Before.answer), Counters(Latest.answer))) =>
            DiffsAgainstBefore

\* C3: the same, for scrapes that are at most 2.5 intervals after the
\* scrape before them.
C3_Reset ==
    /\ (/\ Len(Scrapes) >= 2
        /\ Reset(Before.answer, Latest.answer)
        /\ WithinGap(Latest, Before)) => Resynchronised
    /\ (/\ Len(Scrapes) >= 3
        /\ Reset(BeforeThat.answer, Before.answer)
        /\ WithinGap(Before, BeforeThat)
        /\ NoCounterLower(Counters(Before.answer), Counters(Latest.answer))
        /\ WithinGap(Latest, Before)) => DiffsAgainstBefore

\* Snapshot S3 has been scraped one interval after snapshot S2, snapshot S1
\* one interval after that, and the record of zone 200 counts the 50
\* requests since the reset.
C3_Witness ==
    /\ Len(Scrapes) >= 3
    /\ BeforeThat.answer = 2
    /\ Before.answer = 3
    /\ Latest.answer = 1
    /\ WithinGap(Before, BeforeThat)
    /\ WithinGap(Latest, Before)
    /\ OutZone("200").count = 50

(***************************************************************************)
(* C4: percentiles of a histogram                                          *)
(***************************************************************************)

\* The non-mutable diff of every bucket series of the query is available:
\* there are two ticks, at most 2.5 intervals apart, and no bucket counter
\* went down
QueryAvailable == pq.gap # 0 /\ 2 * pq.gap <= 5 * interval * 1000
                     /\ \A i \in 1..Len(QueryLes) : pq.diffs[i] >= 0

\* No bucket counts less than the bucket of the next smaller le
QueryMonotone == \A i \in 2..Len(QueryLes) : pq.diffs[i] >= pq.diffs[i - 1]

\* N, the count of the last bucket
QueryN == pq.diffs[Len(QueryLes)]

\* target = max(floor(p * N), 1), p in percent
RefTarget(p) == Max((p * QueryN) \div 100, 1)

\* The first bucket in ascending le order with count >= target
RefBucket(target) ==
    CHOOSE i \in 1..Len(QueryLes) :
        /\ pq.diffs[i] >= target
        /\ \A j \in 1..(i - 1) : pq.diffs[j] < target

\* The float value, in seconds, is within 2^-30 s of
\* low_le + (target - low_count) / (high_count - low_count) * (high_le - low_le)
\* for bucket i, with (low_le, low_count) = (0, 0) for the first bucket
RefInterpolated(value, target, i) ==
    LET low_le == IF i = 1 THEN 0 ELSE QueryLes[i - 1]
        low_count == IF i = 1 THEN 0 ELSE pq.diffs[i - 1]
        width == pq.diffs[i] - low_count
        ref == IntTrueDiv(IntOf(low_le * width + (target - low_count) * (QueryLes[i] - low_le)),
                          IntOf(width * 1000))
        off == FSub(value, ref)
    IN  FCmp([off EXCEPT !.neg = FALSE], [neg |-> FALSE, man |-> <<1>>, exp |-> -30]) <= 0

\* The latency in ms, rounded, that the query has returned for p
QueryMs(p) == IntNum(FRoundInt(FDiv(pq.result.values[p], Seconds(1))))

\* The query is the one of S2: bucket diffs 10, 50, 100 over one interval
QueryS2 == pq.gap = interval * 1000 /\ pq.diffs = <<10, 50, 100>>

\* C4: get_percentiles returns unavailable when the diff of a bucket series
\* is unavailable or a bucket counts less than the bucket before it, the
\* empty mapping when N = 0, and otherwise for every p the value
\* interpolated in the first bucket with count >= max(floor(p * N), 1);
\* for the bucket diffs 10, 50, 100 of S2 at 1, 10, 100 ms the values
\* round to p50 = 10, p99 = 98, p100 = 100 ms; the histogram of a zone of a
\* backend is answered with unavailable or with a mapping.
C4_Percentiles ==
    /\ pq.kind = "percentiles" =>
        /\ (~QueryAvailable \/ ~QueryMonotone) => pq.result.kind = "none"
        /\ (QueryAvailable /\ QueryMonotone /\ QueryN = 0) =>
              pq.result.kind = "dict" /\ DOMAIN pq.result.values = {}
        /\ (QueryAvailable /\ QueryMonotone /\ QueryN > 0) =>
              /\ pq.result.kind = "dict"
              /\ DOMAIN pq.result.values = QueryPercentiles
              /\ \A p \in QueryPercentiles :
                    RefInterpolated(pq.result.values[p], RefTarget(p),
                                    RefBucket(RefTarget(p)))
        /\ QueryS2 => QueryMs(50) = 10 /\ QueryMs(99) = 98 /\ QueryMs(100) = 100
    /\ pq.kind = "zone_percentiles" => pq.result.kind \in {"none", "dict"}

(***************************************************************************)
(* C5: bounded, time-ordered series                                        *)
(***************************************************************************)

\* C5 as the spec states it: every series of the store holds at most 2
\* samples and the timestamps of its samples do not decrease from the
\* oldest to the latest.
C5_BoundedOrdered ==
    \A key \in DOMAIN timeseries :
        /\ Len(timeseries[key].data) <= 2
        /\ \A i \in 2..Len(timeseries[key].data) :
              timeseries[key].data[i - 1][1] <= timeseries[key].data[i][1]

(***************************************************************************)
(* C6: histogram index                                                     *)
(***************************************************************************)

\* The label set of a series with le minus le
WithoutLe(key) == [key EXCEPT !.le = None]

\* The index of the histograms of a store is what the series of the store
\* make it
IndexOK(S) ==
    /\ \A key \in DOMAIN S.timeseries :
          key.le # None => WithoutLe(key) \in DOMAIN S.histograms
    /\ \A h \in DOMAIN S.histograms :
          /\ S.histograms[h].timeseries =
                {key \in DOMAIN S.timeseries : key.le # None /\ WithoutLe(key) = h}
          /\ DOMAIN S.histograms[h].les = {key.le : key \in S.histograms[h].timeseries}
          /\ \A le \in DOMAIN S.histograms[h].les :
                /\ S.histograms[h].les[le] \in S.histograms[h].timeseries
                /\ S.histograms[h].les[le].le = le
          /\ Cardinality(DOMAIN S.histograms[h].les)
                = Cardinality(S.histograms[h].timeseries)

\* C6: in every state, and in the State that load makes of the checkpoint
\* file of the state, the member set of every histogram is the set of the
\* series of the store that carry le and whose labels without le are the
\* histogram's key, every series with le has its histogram, and the le
\* mapping of a histogram has one entry per member, under the member's le.
C6_HistogramIndex ==
    /\ IndexOK(TheStore)
    /\ IndexOK(load(ckpt_file).S)

\* A checkpoint with the bucket series of 500, 503, 5xx and total is on
\* disk and the store indexes them under four histograms.
C6_Witness ==
    /\ ckpt_file.kind = "complete"
    /\ Cardinality(DOMAIN histograms) = 4
    /\ Cardinality(DOMAIN load(ckpt_file).S.histograms) = 4
    /\ \E key \in DOMAIN timeseries : key.le # None /\ key.zone = "total"

(***************************************************************************)
(* C7: restart round trip                                                  *)
(***************************************************************************)

\* C7 as the spec states it: unserialize(serialize(ts)) has the labels and
\* the samples of ts for every series of the store, and load of what save
\* writes gives a State with the same series, the same samples and the
\* same t_prev.
C7_RoundTrip ==
    /\ \A key \in DOMAIN timeseries :
          /\ unserialize(serialize(timeseries[key])).key_dict = timeseries[key].key_dict
          /\ unserialize(serialize(timeseries[key])).data = timeseries[key].data
    /\ DOMAIN load(CompleteFile(CheckpointText(TheStore, t_prev))).S.timeseries
          = DOMAIN timeseries
    /\ \A key \in DOMAIN timeseries :
          load(CompleteFile(CheckpointText(TheStore, t_prev))).S.timeseries[key].data
              = timeseries[key].data
    /\ load(CompleteFile(CheckpointText(TheStore, t_prev))).t_prev = t_prev

(***************************************************************************)
(* C8: atomic replacement                                                  *)
(***************************************************************************)

\* A file is absent or holds, complete, one of the texts whose write had
\* begun
AbsentOrVersion(file, begun) ==
    \/ file = Absent
    \/ /\ file.kind = "complete"
       /\ \E i \in 1..Len(begun) : file.content = begun[i]

\* C8: with a crash possible between any two steps, the checkpoint file and
\* the milliseconds file are never partial: each is absent or holds a
\* complete version; as long as the process has not crashed, the
\* milliseconds file holds the new version from its rename on and the
\* checkpoint file holds the previous version (or is absent) until its
\* rename and the new version after it.
C8_Atomic ==
    /\ AbsentOrVersion(ckpt_file, versions.ckpt)
    /\ AbsentOrVersion(ms_file, versions.ms)
    /\ (restarts = 0 /\ pc \in {"assert", "save_open", "save_write", "save_rename"}) =>
          ms_file = CompleteFile(versions.ms[Len(versions.ms)])
    /\ (restarts = 0 /\ pc \in {"save_write", "save_rename"}) =>
          ckpt_file = IF Len(versions.ckpt) = 1 THEN Absent
                      ELSE CompleteFile(versions.ckpt[Len(versions.ckpt) - 1])
    /\ (restarts = 0 /\ pc \in {"loop", "exited"} /\ Len(versions.ckpt) > 0) =>
          ckpt_file = CompleteFile(versions.ckpt[Len(versions.ckpt)])

\* The process has crashed while the temp file of the checkpoint was
\* partly written; the checkpoint file holds the complete version of the
\* tick before.
C8_Witness ==
    /\ restarts = 1
    /\ pc = "start"
    /\ ckpt_tmp.kind = "partial"
    /\ Len(versions.ckpt) = 2
    /\ ckpt_file = CompleteFile(versions.ckpt[1])

(***************************************************************************)
(* C9: checkpoint consistency                                              *)
(***************************************************************************)

\* C9 as the spec states it: the t_prev of the checkpoint on disk is greater
\* than or equal to the timestamp of every sample of the checkpoint and is
\* the latest timestamp of the series of zone 200, which every tick
\* updates.
C9_CheckpointConsistent ==
    ckpt_file.kind = "complete" =>
        \A key \in DOMAIN ckpt_file.content.timeseries :
            /\ \A i \in 1..Len(ckpt_file.content.timeseries[key].serialized_ts.data) :
                  ckpt_file.content.timeseries[key].serialized_ts.data[i][1]
                      <= ckpt_file.content.t_prev
            /\ key.zone = "200" =>
                  ckpt_file.content.timeseries[key].serialized_ts.data[
                      Len(ckpt_file.content.timeseries[key].serialized_ts.data)][1]
                      = ckpt_file.content.t_prev

(***************************************************************************)
(* C10: late scrape                                                        *)
(***************************************************************************)

\* C10 as the spec states it: a scrape whose fetch ended at or after
\* t_next + late_margin leaves no sample of its timestamp in any series of
\* the store and no record of its timestamp in the milliseconds file.
C10_LateDiscarded ==
    \A i \in 1..Len(ticks) :
        ticks[i].late =>
            /\ \A key \in DOMAIN timeseries :
                  \A j \in 1..Len(timeseries[key].data) :
                      timeseries[key].data[j][1] # ticks[i].t
            /\ (ms_file.kind = "complete" /\ TheBackend \in DOMAIN ms_file.content) =>
                  ms_file.content[TheBackend].t # ticks[i].t

(***************************************************************************)
(* C11: when the rate fields are left out                                  *)
(***************************************************************************)

\* The latest scrape was the first one of a process that started on an
\* empty store: aggregate_backend_data ran with t_prev at its initial -1
FirstOnEmptyStore == Len(Scrapes) = 1 /\ restarts = 0

\* C11 as the spec states it: after a scrape that wrote the backend's
\* record, the record of zone 200 has no rate field at all when the scrape
\* ran with t_prev at the initial -1 (the first scrape on an empty store) or
\* with a timestamp not later than the scrape before it, and a rate field
\* that is present is null when the field it is computed from is null.
C11_RatesOmitted ==
    (/\ Len(Scrapes) > 0
     /\ Latest.raised = ""
     /\ ms_file.kind = "complete"
     /\ TheBackend \in DOMAIN ms_file.content) =>
        /\ FirstOnEmptyStore => DOMAIN OutZone("200").rate = {}
        /\ (Len(Scrapes) >= 2 /\ Latest.t <= Before.t) =>
              DOMAIN OutZone("200").rate = {}
        /\ \A name \in DOMAIN OutZone("200").rate :
              OutZone("200")[name] = None => OutZone("200").rate[name] = None

(***************************************************************************)
(* C12: the value of a rate field                                          *)
(***************************************************************************)

\* The latest two scrapes both succeeded and the later one has the later
\* timestamp: the later one ran with t_prev at the timestamp of the earlier
RatedTick ==
    /\ Len(Scrapes) >= 2
    /\ Latest.raised = ""
    /\ Before.raised = ""
    /\ Latest.t > Before.t
    /\ ms_file.kind = "complete"
    /\ TheBackend \in DOMAIN ms_file.content

\* The zones of the backend of SpecRates in the milliseconds file
RatedZones == {"200", "2xx", "total"}

\* 100000 * value - rate * dt: how far the rate field (in hundredths per
\* second) of a field of a zone is below the exact quotient of the field
\* and t_cur - t_prev, in units of 1 / dt hundredths; dt is in ms
RateShortfall(zone, name) ==
    OutZone(zone)[name] * 100000 - OutZone(zone).rate[name] * (Latest.t - Before.t)

C12_Witness ==
    /\ RatedTick
    /\ Before.answer = 1
    /\ Latest.answer = 2
    /\ OneIntervalApart
    /\ OutZone("200").count = 100
    /\ OutZone("200").rate["count"] = 166
    /\ 2 * RateShortfall("200", "count") > Latest.t - Before.t

SumExpected ==
    LET before == IF pq.target = <<>> THEN V(0) ELSE pq.target[1][2]
    IN  <<<<60000, Plus(Plus(Plus(before, pq.a), pq.b), pq.c)>>>>

\* C13 as the spec states it: three series with the same latest timestamp,
\* merged into an empty or same-timestamp target in any order and any
\* grouping, leave the target with the one latest sample whose value is the
\* sum of the merged values.
C13_SumAnyGrouping ==
    pq.kind = "sum" => pq.flat \cup pq.grouped = {SumExpected}

(***************************************************************************)
(* C14: percentiles are monotone in p                                      *)
(***************************************************************************)

\* C14: for a histogram whose bucket diffs are available and non-decreasing
\* in le and whose last bucket counts N > 0, the latency get_percentiles
\* returns for p1 is at most the latency it returns for p2 whenever
\* p1 <= p2; likewise for the histogram of a zone of a backend whenever
\* get_percentiles returns latencies.
C14_MonotoneInP ==
    /\ (pq.kind = "percentiles" /\ QueryAvailable /\ QueryMonotone /\ QueryN > 0) =>
          /\ pq.result.kind = "dict"
          /\ \A p1 \in QueryPercentiles, p2 \in QueryPercentiles :
                p1 <= p2 => FCmp(pq.result.values[p1], pq.result.values[p2]) <= 0
    /\ (pq.kind = "zone_percentiles" /\ pq.result.kind = "dict") =>
          \A p1 \in DOMAIN pq.result.values, p2 \in DOMAIN pq.result.values :
              p1 <= p2 => FCmp(pq.result.values[p1], pq.result.values[p2]) <= 0

\* A query whose buckets all count requests (10, 50 and 100 of them) has
\* been answered with latencies that rise from p = 0 over p = 0.5 to p = 1,
\* in three different buckets.
C14_Witness ==
    /\ pq.kind = "percentiles"
    /\ QueryAvailable
    /\ pq.diffs = <<10, 50, 100>>
    /\ pq.result.kind = "dict"
    /\ FCmp(pq.result.values[50], pq.result.values[0]) > 0
    /\ FCmp(pq.result.values[100], pq.result.values[50]) > 0
    /\ FCmp(pq.result.values[10], pq.result.values[5]) > 0

(***************************************************************************)
(* C15: the set of status-code zones                                       *)
(***************************************************************************)

\* What a published zone adds to the set, by the claim: a status code in
\* [100, 600) adds itself and its class, 503 only itself, any other zone
\* nothing
PublishedAdds(zone) ==
    CASE zone = "200" -> {"200", "2xx"}
      [] zone = "404" -> {"404", "4xx"}
      [] zone = "500" -> {"500", "5xx"}
      [] zone = "503" -> {"503"}
      [] OTHER -> {}

\* C15: the set _aggregate_zones returns holds, for every updated series
\* whose zone is an integer in [100, 600), the zone and its class <d>xx,
\* for 503 the zone only, and nothing for any other zone (integers outside
\* [100, 600), cache zones, request methods, total).
C15_StatusCodeZones ==
    pq.kind = "zones" =>
        Range(pq.status_code_zones) = UNION {PublishedAdds(zone) : zone \in pq.zones}

\* A backend that publishes 404, 503, 99, 600, STALE and total has been
\* aggregated: the set is 404, 4xx and 503, without 5xx.
C15_Witness ==
    /\ pq.kind = "zones"
    /\ pq.zones = {"404", "503", "99", "600", "STALE", "total"}
    /\ Range(pq.status_code_zones) = {"404", "4xx", "503"}
    /\ "cache_other" \in pq.aggregates

(***************************************************************************)
(* C16: top-status                                                         *)
(***************************************************************************)

\* The top-status mapping of the backend's record in the milliseconds file:
\* its items <<zone, count>> in the order written
TopStatus == ms_file.content[TheBackend].metrics.top_status

\* The keys of top-status
TopStatusKeys == {TopStatus[i][1] : i \in 1..Len(TopStatus)}

\* The value top-status has for a key
TopStatusOf(zone) == TopStatus[CHOOSE i \in 1..Len(TopStatus) : TopStatus[i][1] = zone][2]

\* C16 as the spec states it: after a scrape that wrote the backend's
\* record, the keys of top-status are exactly the individual status-code
\* zones of the snapshot, each with the count of its zone's record; for
\* snapshot S2 one interval after S1 top-status is exactly {"200": 100}.
C16_TopStatus ==
    (/\ Len(Scrapes) > 0
     /\ Latest.raised = ""
     /\ ms_file.kind = "complete"
     /\ TheBackend \in DOMAIN ms_file.content) =>
        /\ TopStatusKeys = StatusZones(Latest.answer)
        /\ \A zone \in StatusZones(Latest.answer) :
               zone \in TopStatusKeys => TopStatusOf(zone) = OutZone(zone).count
        /\ (/\ Len(Scrapes) >= 2
            /\ Before.answer = 1
            /\ Latest.answer = 2
            /\ OneIntervalApart) => TopStatus = <<<<"200", 100>>>>

(***************************************************************************)
(* C17: test mode                                                          *)
(***************************************************************************)

\* The number of ticks a test-mode run with its URLs and its limit makes,
\* by the claim
TestTicks ==
    IF args.test_limit < 0 \/ args.test_limit >= Len(args.urls) THEN Len(args.urls)
    ELSE args.test_limit

\* C17 as the spec states it: a test-mode run never sleeps or misses an
\* interval (the clock it reads stays where it was at the start), its k-th
\* iteration (0-based) fetches URL k and no other, t_next is one interval
\* further after every iteration, and when the run has ended it has made
\* exactly n ticks if the limit is negative or at least n, and exactly
\* as many as the limit says otherwise.
C17_TestMode ==
    (test_mode /\ pc # "start") =>
        /\ clock \in StartClocks
        /\ \A i \in 1..Len(ticks) :
              ticks[i].kind = "scrape" /\ ticks[i].url = args.urls[i]
        /\ pc = "loop" => t_next = clock + (Len(ticks) + 1) * interval * 1000
        /\ pc = "exited" => Len(ticks) = TestTicks

(***************************************************************************)
(* C18: the first t_next                                                   *)
(***************************************************************************)

\* C18 as the spec states it: for a wall-clock time now >= 0, whole or
\* fractional, and a positive interval, _get_start_time returns the
\* smallest integer multiple of the interval that is not before now.
C18_StartTime ==
    pq.kind = "start" =>
        /\ pq.result % (pq.interval * 1000) = 0
        /\ pq.result >= pq.now
        /\ pq.result - pq.interval * 1000 < pq.now

(***************************************************************************)
(* C19: configuration errors                                               *)
(***************************************************************************)

\* The command line is one the claim calls a configuration error: the
\* interval is not positive, the late margin is given and is not in
\* (0, interval / 2], a percentile is outside [0, 100] percent, or a URL is
\* given twice
ConfigInvalid ==
    \/ pq.args.interval <= 0
    \/ pq.args.late_margin # <<>> /\ pq.args.late_margin[1] <= 0
    \/ pq.args.late_margin # <<>> /\ 2 * pq.args.late_margin[1] > pq.args.interval * 1000
    \/ \E i \in DOMAIN pq.args.latency_percentiles :
          pq.args.latency_percentiles[i] < 0 \/ pq.args.latency_percentiles[i] > 100
    \/ Cardinality(Range(pq.args.urls)) < Len(pq.args.urls)

\* C19 as the spec states it: with a configuration error the loop is never
\* reached (no fetch, no iteration) and the exit code of the process is not
\* zero.
C19_ConfigErrors ==
    (pq.kind = "config" /\ ConfigInvalid) =>
        /\ ~pq.result.loop
        /\ pq.result.exit_code # 0

(***************************************************************************)
(* C20: an exception inside a tick                                         *)
(***************************************************************************)

\* Iteration i is not the last one the run's test limit allows
NotLastIteration(i) == args.test_limit < 0 \/ i < args.test_limit

\* C20 as the spec states it: an exception raised inside an iteration of
\* the loop does not end the loop; unless the iteration was the last one
\* the test limit allows, the run has not ended with it.
C20_LoopGoesOn ==
    \A i \in 1..Len(ticks) :
        (ticks[i].raised # "" /\ NotLastIteration(i)) =>
            ~(pc = "exited" /\ Len(ticks) = i)

(***************************************************************************)
(* C23  validate2 and validate agree: on every format and object,          *)
(* validate2 raises ValidationError exactly when validate returns False    *)
(* and returns True exactly when validate returns True.                    *)
(***************************************************************************)
C23_ValidateAgree ==
    pq.kind = "validate" =>
        /\ (pq.validate2 = "ValidationError") <=> (pq.validate = "False")
        /\ (pq.validate2 = "True") <=> (pq.validate = "True")

(***************************************************************************)
(* C21  Checkpoint load outcomes: an absent file gives a warning, an empty *)
(* store and t_prev = -1; a content that fails to parse, fails validation  *)
(* or fails to deserialize is logged as an error, leaves the store         *)
(* completely empty and t_prev = -1, and the program goes on into the loop *)
(* (no exception leaves load).                                             *)
(***************************************************************************)
LoadFailed ==
    /\ pq.file.kind # "absent"
    /\ \/ pq.file.content[1] # "literal"
       \/ pq.valid # "True"
       \/ pq.load.raised # ""

C21_LoadOutcomes ==
    pq.kind = "load" =>
        /\ (pq.file.kind = "absent" =>
                /\ pq.load.log = {"warning"}
                /\ pq.load.S = EmptyStore
                /\ pq.load.t_prev = -1000
                /\ pq.load.raised = "")
        /\ (LoadFailed =>
                /\ "exception" \in pq.load.log
                /\ pq.load.S = EmptyStore
                /\ pq.load.t_prev = -1000
                /\ pq.load.raised = "")

(***************************************************************************)
(* C22  The checkpoint validator.  As claimed: a checkpoint is accepted    *)
(* only if every key_dict has string name, backend and zone, a float le    *)
(* when present and no other key, and every data entry is a 2-tuple of     *)
(* numbers; any other checkpoint is rejected by load.  As the code has it: *)
(* a checkpoint is accepted exactly when it is a dict with a float t_prev  *)
(* and a list timeseries of dicts whose key_dict has string name, backend  *)
(* and zone and a float le when present, other keys being allowed, and     *)
(* whose data is a list of tuples of any length and content; a checkpoint  *)
(* that is not accepted is rejected by load (error logged, empty store,    *)
(* t_prev = -1).                                                           *)
(***************************************************************************)
PyKeys(o) == {o[2][i][1] : i \in 1..Len(o[2])}

HasTyped(o, key, type) ==
    HasKey(o, <<"str", key>>) /\ GetItem(o, <<"str", key>>)[1] = type

KeyDictShape(k, strictly) ==
    /\ k[1] = "dict"
    /\ \A a \in {"name", "backend", "zone"} : HasTyped(k, a, "str")
    /\ HasKey(k, <<"str", "le">>) => HasTyped(k, "le", "float")
    /\ strictly =>
           PyKeys(k) \subseteq {<<"str", a>> : a \in {"name", "backend", "zone", "le"}}

DataShape(data, strictly) ==
    \A i \in 1..Len(data[2]) :
        /\ data[2][i][1] = "tuple"
        /\ strictly =>
               /\ Len(data[2][i][2]) = 2
               /\ \A j \in 1..2 : data[2][i][2][j][1] \in {"int", "float"}

CheckpointShape(d, strictly) ==
    /\ d[1] = "dict"
    /\ HasTyped(d, "t_prev", "float")
    /\ HasTyped(d, "timeseries", "list")
    /\ \A i \in 1..Len(GetItem(d, <<"str", "timeseries">>)[2]) :
          LET s == GetItem(d, <<"str", "timeseries">>)[2][i]
          IN  /\ s[1] = "dict"
              /\ HasKey(s, <<"str", "key_dict">>)
              /\ KeyDictShape(GetItem(s, <<"str", "key_dict">>), strictly)
              /\ HasTyped(s, "data", "list")
              /\ DataShape(GetItem(s, <<"str", "data">>), strictly)

LoadedLiteral == pq.kind = "load" /\ pq.file.kind # "absent" /\ pq.file.content[1] = "literal"

LoadRejected ==
    /\ "exception" \in pq.load.log
    /\ pq.load.S = EmptyStore
    /\ pq.load.t_prev = -1000

C22_ValidatorStrict ==
    LoadedLiteral =>
        /\ pq.valid = "True" => CheckpointShape(pq.file.content[2], TRUE)
        /\ ~CheckpointShape(pq.file.content[2], TRUE) => LoadRejected

\* C22 as the code has it: accepted exactly when of the format, extra keys
\* and tuples of any length allowed; rejected by load when not accepted.
C22_Validator ==
    LoadedLiteral =>
        /\ pq.valid = "True" <=> CheckpointShape(pq.file.content[2], FALSE)
        /\ pq.valid # "True" => LoadRejected

C22_Witness ==
    /\ LoadedLiteral
    /\ pq.valid = "True"
    /\ ~CheckpointShape(pq.file.content[2], TRUE)
    /\ pq.load.raised = ""
    /\ Cardinality(DOMAIN pq.load.S.timeseries) = 2

(***************************************************************************)
(* C24  Diff result: get_diff returns unavailable when the series holds    *)
(* fewer than two samples, when the gap between its two samples is greater *)
(* than 2.5 * interval, or when v_cur - v_prev < 0; in every other case it *)
(* returns v_cur - v_prev, which is >= 0.  The store-level diff of a key   *)
(* that is not in the store is unavailable and creates no series.          *)
(***************************************************************************)
DiffGap == pq.data[2][1] - pq.data[1][1]

DiffCounters == pq.data[2][2].lo - pq.data[1][2].lo

DiffUnavailable ==
    \/ Len(pq.data) < 2
    \/ 2 * DiffGap > 5 * pq.interval * 1000
    \/ DiffCounters < 0

C24_DiffResult ==
    pq.kind = "diff" =>
        /\ DiffUnavailable => pq.get_diff.value = None
        /\ ~DiffUnavailable =>
               pq.get_diff.value = DiffCounters /\ pq.get_diff.value >= 0
        /\ pq.stored => pq.store_diff = pq.get_diff
        /\ ~pq.stored => pq.store_diff.value = None /\ pq.store_diff.data = <<>>

C24_Witness ==
    /\ pq.kind = "diff"
    /\ Len(pq.data) = 2
    /\ 2 * DiffGap = 5 * pq.interval * 1000
    /\ pq.get_diff.value = 7
    /\ pq.stored

(***************************************************************************)
(* C25  Diff frame condition: get_diff leaves the samples of the series    *)
(* unchanged in every case except one: when mutable is true, two samples   *)
(* are stored, their gap is at most 2.5 * interval and v_cur - v_prev < 0, *)
(* exactly the older sample is removed and the latest is kept unchanged.   *)
(* With mutable false the series is never modified, and a too large gap    *)
(* never drops a sample, even in mutable mode.                             *)
(***************************************************************************)
DiffDrops ==
    /\ pq.mutable
    /\ Len(pq.data) = 2
    /\ 2 * DiffGap <= 5 * pq.interval * 1000
    /\ DiffCounters < 0

C25_DiffFrame ==
    pq.kind = "diff" =>
        /\ DiffDrops => pq.get_diff.data = <<pq.data[2]>>
        /\ ~DiffDrops => pq.get_diff.data = pq.data
        /\ pq.stored => pq.store_diff.data = pq.get_diff.data

C25_Witness ==
    /\ pq.kind = "diff"
    /\ DiffDrops
    /\ pq.get_diff.data = <<pq.data[2]>>
    /\ pq.data[1] # pq.data[2]

(***************************************************************************)
(* C26  TimeSeries.sum(other) merges only the most recent sample           *)
(* (t_o, v_o) of other into self and never modifies other: no-op if other  *)
(* is empty; if self is empty it adopts (t_o, v_o); if t_o is older than   *)
(* the latest timestamp of self, self is unchanged; if t_o is newer,       *)
(* (t_o, v_o) is appended, evicting the oldest sample when two are stored; *)
(* if equal, the latest of self becomes (t, v_self + v_o) and the older    *)
(* sample of self is unchanged.                                            *)
(***************************************************************************)
SumLatest(data) == data[Len(data)]

C26_SumCases ==
    pq.kind = "sum_other" =>
        /\ pq.other_after = pq.other
        /\ IF pq.other = <<>> THEN pq.sum = pq.self
           ELSE IF pq.self = <<>> THEN pq.sum = <<SumLatest(pq.other)>>
           ELSE IF SumLatest(pq.other)[1] < SumLatest(pq.self)[1] THEN pq.sum = pq.self
           ELSE IF SumLatest(pq.other)[1] > SumLatest(pq.self)[1]
           THEN /\ SumLatest(pq.sum) = SumLatest(pq.other)
                /\ Len(pq.sum) = 2
                /\ pq.sum[1] = SumLatest(pq.self)
           ELSE /\ Len(pq.sum) = Len(pq.self)
                /\ SumLatest(pq.sum)[1] = SumLatest(pq.self)[1]
                /\ SumLatest(pq.sum)[2] =
                      Plus(SumLatest(pq.self)[2], SumLatest(pq.other)[2])
                /\ Len(pq.self) = 2 => pq.sum[1] = pq.self[1]

(***************************************************************************)
(* C27  Aggregation at the current timestamp: after _aggregate_zones in a  *)
(* tick at t, later than the latest sample of the aggregates, every        *)
(* aggregate series (zone total, <d>xx or cache_other, with the other      *)
(* labels of its constituents, le and direction included) has the latest   *)
(* sample (t, S), S being the sum of the values parsed in this tick for    *)
(* its constituents with the same other labels; the order in which the     *)
(* updated series are processed has no effect; the sample of the aggregate *)
(* from the tick before is kept as its older sample; every aggregate       *)
(* touched is appended to the list of updated series.                      *)
(***************************************************************************)
AggConstituents(agg) ==
    CASE agg = "total" -> {"200", "404", "500", "503"}
      [] agg = "2xx" -> {"200"}
      [] agg = "4xx" -> {"404"}
      [] agg = "5xx" -> {"500"}
      [] agg = "cache_other" -> {"STALE", "UPDATING"}

\* The label sets of the series of a zone, in the order of _parse_zone: the
\* bucket of response_duration, response_duration_sum, bytes in, bytes out
\* and requests_total
AggKinds == 1..5

\* The key of the aggregate agg for the labels of kind k
AggKey(agg, k) == [AggregatedPoints(1, 0)[k].key_dict EXCEPT !.zone = agg]

\* The sum of the values of kind k parsed for the zones at places, added up
\* in the order of the document
RECURSIVE AggSum(_, _)
AggSum(places, k) ==
    LET i == CHOOSE x \in places : \A y \in places : y <= x
    IN  IF places = {i} THEN AggregatedPoints(i, 10 * i)[k].value
        ELSE Plus(AggSum(places \ {i}, k), AggregatedPoints(i, 10 * i)[k].value)

AggMembers(agg) == {i \in pq.chosen : AggregatedZones[i] \in AggConstituents(agg)}

AggTouched(agg, k) ==
    /\ AggKey(agg, k) \in DOMAIN pq.timeseries
    /\ LET data == pq.timeseries[AggKey(agg, k)].data
       IN  /\ data[Len(data)] = <<120000, AggSum(AggMembers(agg), k)>>
           /\ pq.reversed[AggKey(agg, k)].data = data
           /\ IF pq.before
              THEN Len(data) = 2 /\ data[1] = SumLatest(pq.store[AggKey(agg, k)].data)
              ELSE Len(data) = 1
    /\ Cardinality({n \in 1..Len(pq.updated_ts) : pq.updated_ts[n] = AggKey(agg, k)}) = 1
    /\ \E n \in (pq.parsed + 1)..Len(pq.updated_ts) : pq.updated_ts[n] = AggKey(agg, k)

AggUntouched(agg, k) ==
    /\ \A n \in 1..Len(pq.updated_ts) : pq.updated_ts[n] # AggKey(agg, k)
    /\ IF pq.before
       THEN pq.timeseries[AggKey(agg, k)].data = pq.store[AggKey(agg, k)].data
       ELSE AggKey(agg, k) \notin DOMAIN pq.timeseries

C27_AggregateAtTick ==
    pq.kind = "aggregate" =>
        \A agg \in {"total", "2xx", "4xx", "5xx", "cache_other"}, k \in AggKinds :
            IF AggMembers(agg) # {} THEN AggTouched(agg, k) ELSE AggUntouched(agg, k)

(***************************************************************************)
(* C28  Aggregate consistency over any sequence of ticks: whenever an      *)
(* aggregate zone (total, <d>xx, cache_other) has a non-null count in the  *)
(* output of a tick, that count is the sum of the counts of its            *)
(* constituent zones for the same interval (a constituent without a count  *)
(* adding nothing), also when a constituent appears for the first time,    *)
(* stops being published or resets its counter between the two ticks.      *)
(***************************************************************************)
OutZones == DOMAIN ms_file.content[TheBackend].metrics.zones

\* The sum of the counts that the published zones among zones have
RECURSIVE SumAvailable(_)
SumAvailable(zones) ==
    IF zones = {} THEN 0
    ELSE LET z == CHOOSE x \in zones : TRUE
         IN  (IF OutZone(z).count = None THEN 0 ELSE OutZone(z).count)
             + SumAvailable(zones \ {z})

\* The milliseconds file is the output of the latest scrape
OutputOfLatest ==
    /\ Len(Scrapes) > 0
    /\ Latest.answer # 0
    /\ Latest.raised = ""
    /\ ms_file.kind = "complete"
    /\ TheBackend \in DOMAIN ms_file.content
    /\ ms_file.content[TheBackend].t = Latest.t

C28_AggregateConsistent ==
    OutputOfLatest =>
        \A agg \in OutZones \cap {"total", "5xx", "cache_other"} :
            OutZone(agg).count # None =>
                OutZone(agg).count =
                    SumAvailable({z \in ZoneNames(Latest.answer) :
                                     agg \in Range(AggZones(z))})

(***************************************************************************)
(* C29  Percentile scoping: when the metrics of a backend are projected in *)
(* a tick, percentile keys are written only into the records of zones      *)
(* updated in this tick for the backend, each from the histogram of the    *)
(* backend for that zone; a histogram of a zone that was not updated in    *)
(* this tick never contributes a value and never makes the projection      *)
(* fail (no KeyError leaves it).                                           *)
(***************************************************************************)
UpdatedZones(answer) ==
    ZoneNames(answer) \cup UNION {Range(AggZones(z)) : z \in ZoneNames(answer)}

C29_PercentileScope ==
    /\ \A i \in 1..Len(Scrapes) : Scrapes[i].raised # "KeyError"
    /\ OutputOfLatest =>
           \A ms \in OutZones :
               ms_file.content[TheBackend].metrics.zones[ms].pct # <<>> =>
                   \E z \in UpdatedZones(Latest.answer) :
                       /\ ZONE_TO_MILLISECONDS(z) = ms
                       /\ \E h \in DOMAIN histograms :
                             h.backend = TheBackend /\ h.zone = z

(***************************************************************************)
(* C30  Tick timestamp in production mode                                  *)
(***************************************************************************)
\* t_next of the i-th iteration of the loop: every iteration that did not
\* raise moved t_next on by one interval
TickNext(i) ==
    t_next - (Len(ticks) - i + (IF pc = "exited" /\ ticks[Len(ticks)].raised # ""
                                THEN 0 ELSE 1)) * interval * 1000

\* The iterations that fetched on time and stored what they fetched
OnTimeTicks ==
    {i \in 1..Len(ticks) :
        ticks[i].kind = "scrape" /\ ~ticks[i].late /\ ticks[i].raised = ""}

\* The series of the store that hold a sample of timestamp t
StampedAt(t) ==
    {key \in DOMAIN timeseries :
        \E j \in 1..Len(timeseries[key].data) : timeseries[key].data[j][1] = t}

\* C30 as the spec states it: in production mode every iteration that
\* fetched on time stored its samples with the timestamp t_next of that
\* iteration, and two on-time iterations in a row have timestamps exactly
\* one interval apart.
C30_TickTimestampScheduled ==
    ~test_mode =>
        /\ \A i \in OnTimeTicks : ticks[i].t = TickNext(i)
        /\ \A i \in OnTimeTicks :
               (i + 1) \in OnTimeTicks =>
                   ticks[i + 1].t - ticks[i].t = interval * 1000

\* C30 as the code has it: in production mode every iteration that fetched
\* on time stored its samples with the time t the loop read from the clock
\* on waking, t_next <= t < t_next + late_margin, the same t for every
\* series the iteration updated (no sample of the store has another
\* timestamp than that of a scrape); the fetch of the iteration started at
\* t; and two
\* on-time iterations in a row have timestamps more than
\* interval - late_margin and less than interval + late_margin apart.
C30_TickTimestamp ==
    ~test_mode =>
        /\ \A i \in OnTimeTicks :
               /\ TickNext(i) <= ticks[i].t
               /\ ticks[i].t < TickNext(i) + late_margin
        /\ \A key \in DOMAIN timeseries :
               \A j \in 1..Len(timeseries[key].data) :
                   \E i \in 1..Len(ticks) :
                       /\ ticks[i].kind = "scrape"
                       /\ ticks[i].t = timeseries[key].data[j][1]
        /\ \A i \in OnTimeTicks :
               (i = Len(ticks)) =>
                   /\ StampedAt(ticks[i].t) # {}
                   /\ (pc = "loop" /\ clock < t_next) =>
                          (clock - ticks[i].t) \in FetchDurations
        /\ \A i \in OnTimeTicks :
               (i + 1) \in OnTimeTicks =>
                   /\ ticks[i + 1].t - ticks[i].t > interval * 1000 - late_margin
                   /\ ticks[i + 1].t - ticks[i].t < interval * 1000 + late_margin

\* Two on-time iterations in a row, the second woken later after its
\* t_next than the first, with samples of both in the store
C30_Witness ==
    /\ ~test_mode
    /\ Len(ticks) >= 2
    /\ {Len(ticks) - 1, Len(ticks)} \subseteq OnTimeTicks
    /\ ticks[Len(ticks)].t - ticks[Len(ticks) - 1].t > interval * 1000
    /\ ticks[Len(ticks)].t > TickNext(Len(ticks))
    /\ StampedAt(ticks[Len(ticks)].t) \cap StampedAt(ticks[Len(ticks) - 1].t) # {}

(***************************************************************************)
(* C31  Common timestamp of a tick                                         *)
(***************************************************************************)
\* The samples a step has written: those of the store after the step that
\* the store did not hold (under the same key) before it
WrittenSamples ==
    {s \in UNION {Range(timeseries[key].data)' : key \in DOMAIN timeseries'} :
        \E key \in DOMAIN timeseries' :
            /\ s \in Range(timeseries[key].data)'
            /\ key \in DOMAIN timeseries => s \notin Range(timeseries[key].data)}

\* The step is a tick that fetched: it has added a scrape to ticks
TickStep == Len(ticks') = Len(ticks) + 1 /\ ticks'[Len(ticks')].kind = "scrape"

\* C31: in production and in test mode, every sample a tick writes (for
\* every backend, every zone and every aggregate series) carries the one
\* timestamp t_cur of the tick, and a tick that ends without an exception
\* leaves t_prev at that same value.
C31_CommonTimestamp ==
    [][TickStep =>
          /\ \A s \in WrittenSamples : s[1] = ticks'[Len(ticks')].t
          /\ ticks'[Len(ticks')].raised = "" => t_prev' = ticks'[Len(ticks')].t]_vars

\* A production tick has written samples of both backends, of two zones and
\* of the aggregate zone total, all with the timestamp t_prev now has
C31_Witness ==
    /\ ~test_mode
    /\ Len(ticks) >= 2
    /\ ticks[Len(ticks)].kind = "scrape"
    /\ ticks[Len(ticks)].raised = ""
    /\ t_prev = ticks[Len(ticks)].t
    /\ \A b \in {TheBackend, "b2"} :
           \A z \in {"200", "GET", "total"} :
               LET key == CountKey(b, z)
               IN  /\ key \in DOMAIN timeseries
                   /\ Len(timeseries[key].data) = 2
                   /\ timeseries[key].data[2][1] = t_prev

(***************************************************************************)
(* C32  Missed interval                                                    *)
(***************************************************************************)
\* The loop of a production run is at its top with now >= t_next +
\* late_margin
DeadlinePassed == pc = "loop" /\ ~test_mode /\ clock >= t_next + late_margin

\* C32: in production mode, a loop iteration that finds now >= t_next +
\* late_margin logs a warning and skips the tick: it fetches nothing, the
\* store, t_prev, the checkpoint file and the milliseconds file stay as
\* they are, t_next advances by exactly one interval and step by one; and
\* in every step of a production run t_next stays an integer multiple of
\* the interval and does not decrease.
C32_MissedInterval ==
    [][/\ DeadlinePassed =>
              /\ log' = {"missed"}
              /\ ticks' = Append(ticks, ticks'[Len(ticks')])
              /\ ticks'[Len(ticks')].kind = "missed"
              /\ clock' = clock
              /\ UNCHANGED <<timeseries, histograms, t_prev, ckpt_file, ckpt_tmp,
                             ms_file, ms_tmp>>
              /\ t_next' = t_next + interval * 1000
              /\ step' = step + 1
       /\ ~test_mode =>
              /\ t_next' % (interval * 1000) = 0
              /\ t_next' >= t_next]_vars

\* An interval was missed after a tick had filled the store, and a later
\* tick fetched again at the t_next that followed
C32_Witness ==
    /\ ~test_mode
    /\ Len(ticks) >= 3
    /\ ticks[Len(ticks) - 2].kind = "scrape"
    /\ ticks[Len(ticks) - 1].kind = "missed"
    /\ ticks[Len(ticks)].kind = "scrape"
    /\ ticks[Len(ticks)].t - ticks[Len(ticks) - 2].t >= 2 * interval * 1000
    /\ DOMAIN timeseries # {}

(***************************************************************************)
(* C33  Bucket size mismatch                                               *)
(***************************************************************************)
\* The URLs (positions in args.urls) that answered the tick of this step
\* with a snapshot of the given kind
Answered(kind) ==
    {i \in 1..Len(args.urls) :
        /\ TickStep
        /\ ~test_mode
        /\ ticks'[Len(ticks')].answer[i] = kind}

BackendName(i) == IF i = 1 THEN TheBackend ELSE "b2"

\* The series of a backend's zone, as the store of the state has them
ZoneSeries(backend, zone) ==
    [key \in {k \in DOMAIN timeseries : k.backend = backend /\ k.zone = zone} |->
        timeseries[key]]

ZoneHistograms(backend, zone) ==
    [h \in {k \in DOMAIN histograms : k.backend = backend /\ k.zone = zone} |->
        histograms[h]]

\* The step has written a sample with the tick's timestamp into the
\* requests_total series of the backend's zone
ZoneParsed(backend, zone) ==
    /\ CountKey(backend, zone) \in DOMAIN timeseries'
    /\ \E s \in Range(timeseries[CountKey(backend, zone)].data)' :
           s \in WrittenSamples /\ s[1] = ticks'[Len(ticks')].t

\* C33: a tick in which zone 200 of a backend has bucket arrays of
\* different lengths leaves the series and histograms of that zone of the
\* backend exactly as they were (none created, no sample added), logs the
\* exception, and still parses the backend's zone GET.
C33_BucketMismatch ==
    [][\A i \in Answered("mismatch") :
          /\ ZoneSeries(BackendName(i), "200")' = ZoneSeries(BackendName(i), "200")
          /\ ZoneHistograms(BackendName(i), "200")' = ZoneHistograms(BackendName(i), "200")
          /\ "exception" \in log'
          /\ ZoneParsed(BackendName(i), "GET")]_vars

\* The second tick found the mismatch in zone 200 of b1: the zone's series
\* hold the sample of the first tick only, zone GET has the samples of both
C33_Witness ==
    /\ ~test_mode
    /\ Len(ticks) = 2
    /\ ticks[2].kind = "scrape"
    /\ ticks[2].answer = <<"mismatch", "ok">>
    /\ ticks[2].raised = ""
    /\ CountKey(TheBackend, "200") \in DOMAIN timeseries
    /\ Len(timeseries[CountKey(TheBackend, "200")].data) = 1
    /\ Len(timeseries[CountKey(TheBackend, "GET")].data) = 2
    /\ "exception" \in log

(***************************************************************************)
(* C34  A zone with a missing key or a value that is not a number          *)
(***************************************************************************)
\* C34: a tick in which zone 200 of a backend lacks the key inBytes, or has
\* an inBytes or a requestMsecCounter that is not a number, leaves the
\* series of that zone of the backend exactly as they were, sums nothing
\* of the zone into the backend's aggregate zone 2xx (zone 200 is the only
\* zone that feeds it), and still parses the backend's zone GET; no
\* exception leaves the tick because of the zone.
C34_ZoneSkip ==
    [][\A i \in Answered("missing") \cup Answered("bad") \cup Answered("bad_sum") :
          /\ ZoneSeries(BackendName(i), "200")' = ZoneSeries(BackendName(i), "200")
          /\ ZoneSeries(BackendName(i), "2xx")' = ZoneSeries(BackendName(i), "2xx")
          /\ ZoneParsed(BackendName(i), "GET")
          /\ ticks'[Len(ticks')].raised # "TypeError"]_vars

(***************************************************************************)
(* C35  A backend that fails, and the other backends of the tick           *)
(***************************************************************************)
\* The URLs whose request failed in the tick of this step, or whose payload
\* did not decode
Failed ==
    UNION {Answered(kind) : kind \in {"timeout", "http_error", "status",
                                      "invalid_utf8", "invalid_json", "no_serverZones"}}

\* The series of a backend, as the store of the state has them
BackendSeries(backend) ==
    [key \in {k \in DOMAIN timeseries : k.backend = backend} |-> timeseries[key]]

\* The store without the series and histograms of a backend
StoreWithout(backend) ==
    [timeseries |-> [key \in {k \in DOMAIN timeseries : k.backend # backend} |->
                        timeseries[key]],
     histograms |-> [h \in {k \in DOMAIN histograms : k.backend # backend} |->
                        histograms[h]]]

\* The document the tick of this step would write if the store held
\* nothing of the backend
DocumentWithout(backend) ==
    aggregate_backend_data(StoreWithout(backend), ticks'[Len(ticks')].t,
                           fetch_backend_data(args.urls, ticks'[Len(ticks')].answer,
                                              step + 1),
                           FALSE, iteration_order', t_prev, interval, latency_percentiles
                          ).milliseconds_stats

\* C35: a tick requests each URL of args.urls once; a backend whose request
\* failed (timeout, HTTP error, status other than 200) or whose payload
\* did not decode (invalid UTF-8, invalid JSON, no serverZones) keeps its
\* series exactly as they were and has no entry in the document the tick
\* writes, and a backend of the same tick that answered with a sound
\* snapshot gets its samples and its entry in the document; the document
\* is the one the tick would write if the store held nothing of the failed
\* backend; the tick raises nothing.
C35_BackendIsolation ==
    [][\A i \in Failed :
          /\ ticks'[Len(ticks')].url = args.urls
          /\ BackendSeries(BackendName(i))' = BackendSeries(BackendName(i))
          /\ ticks'[Len(ticks')].raised = ""
          /\ ms_file'.kind = "complete"
          /\ BackendName(i) \notin DOMAIN ms_file'.content
          /\ ms_file'.content = DocumentWithout(BackendName(i))
          /\ \A j \in Answered("ok") :
                 /\ ZoneParsed(BackendName(j), "200")
                 /\ ZoneParsed(BackendName(j), "GET")
                 /\ BackendName(j) \in DOMAIN ms_file'.content
                 /\ ms_file'.content[BackendName(j)].t = ticks'[Len(ticks')].t]_vars

(***************************************************************************)
(* C36  Series persistence                                                 *)
(***************************************************************************)
\* The keys and the samples of the series of the checkpoint file
CheckpointData ==
    IF ckpt_file.kind # "complete" THEN <<>>
    ELSE [key \in DOMAIN ckpt_file.content.timeseries |->
             ckpt_file.content.timeseries[key].serialized_ts.data]

\* The series of the store that the tick of this step has no zone for
Unpublished ==
    {key \in DOMAIN timeseries :
        \/ ticks'[Len(ticks')].answer = 0
        \/ key.zone \notin UpdatedZones(ticks'[Len(ticks')].answer)}

\* C36: no step of the running process removes a series or a histogram
\* from the store or a member from a histogram, and no step removes a
\* series from the checkpoint file; a tick leaves every series it has no
\* zone for as it was and writes it into the checkpoint with its samples;
\* and a process that starts again loads every series of the checkpoint
\* file with the samples the file has.
C36_SeriesPersist ==
    [][/\ (pc # "start" /\ pc' # "start") =>
              /\ DOMAIN timeseries \subseteq DOMAIN timeseries'
              /\ DOMAIN histograms \subseteq DOMAIN histograms'
              /\ \A h \in DOMAIN histograms :
                     histograms[h].timeseries \subseteq histograms'[h].timeseries
       /\ DOMAIN CheckpointData \subseteq DOMAIN CheckpointData'
       /\ TickStep =>
              \A key \in Unpublished :
                  /\ timeseries'[key] = timeseries[key]
                  /\ ticks'[Len(ticks')].raised = "" =>
                         CheckpointData'[key] = timeseries[key].data
       /\ (pc = "start" /\ pc' # "start") =>
              /\ DOMAIN timeseries' = DOMAIN CheckpointData
              /\ \A key \in DOMAIN CheckpointData :
                     timeseries'[key].data = CheckpointData[key]]_vars

(***************************************************************************)
(* C37  52-bit value bound                                                 *)
(***************************************************************************)
\* C37: in every state every sample of every series of the store, also of
\* the aggregate series that sum builds and of the series that load has
\* restored from the checkpoint, has a value v with 0 <= v < 2^52.
C37_ValueBound ==
    \A key \in DOMAIN timeseries :
        \A i \in 1..Len(timeseries[key].data) :
            VBelowLimit(timeseries[key].data[i][2])

(***************************************************************************)
(* C38  Rate time base                                                     *)
(***************************************************************************)
\* The series a rate field of a zone's record is computed from
RateKey(name, backend, zone) ==
    CASE name = "bytes" -> BytesOutKey(backend, zone)
      [] name = "bytes_in" -> BytesInKey(backend, zone)
      [] name = "count" -> CountKey(backend, zone)
      [] OTHER -> SumKey(backend, zone)

\* The time between the last two samples of a series, in ms
SampleGap(data) == data[Len(data)][1] - data[Len(data) - 1][1]

\* The rate fields of the document of this step that have a value: the
\* backend, the zone and the name of the field
RatedFields ==
    {f \in {<<k.backend, k.zone, name>> : k \in DOMAIN timeseries', name \in RateNames} :
        /\ ms_file'.kind = "complete"
        /\ f[1] \in DOMAIN ms_file'.content
        /\ ZONE_TO_MILLISECONDS(f[2]) \in DOMAIN ms_file'.content[f[1]].metrics.zones
        /\ f[3] \in DOMAIN ms_file'.content[f[1]].metrics.zones[ZONE_TO_MILLISECONDS(f[2])].rate
        /\ ms_file'.content[f[1]].metrics.zones[ZONE_TO_MILLISECONDS(f[2])].rate[f[3]] # None}

\* C38: in the document a tick writes, a rate field with a value has been
\* divided by the time between the two samples its diff was taken from:
\* t_cur - t_prev is the time between the last two samples of the field's
\* series, also when the backend or the zone had no sample in the tick
\* before.
C38_RateTimeBase ==
    [][TickStep /\ ticks'[Len(ticks')].raised = "" =>
          \A f \in RatedFields :
              /\ Len(timeseries'[RateKey(f[3], f[1], f[2])].data) >= 2
              /\ SampleGap(timeseries'[RateKey(f[3], f[1], f[2])].data)
                     = ticks'[Len(ticks')].t - t_prev]_vars

(***************************************************************************)
(* C39  Percentile computation never fails                                 *)
(***************************************************************************)
\* The bucket counts get_percentiles reads for a histogram of the store
CountsOf(h) ==
    BucketCounts(SortSet(DOMAIN histograms[h].les), histograms[h], timeseries,
                 interval, <<>>)

\* The bucket the inner loop of get_percentiles selects for p exists and
\* counts more than the bucket below it
BucketSelected(counts, p) ==
    LET i == FirstBucket(counts, target_count(p, counts[Len(counts)][3]))
    IN  /\ i <= Len(counts)
        /\ VIsNeg(VSub(IF i = 1 THEN V(0) ELSE counts[i - 1][3], counts[i][3]))

\* C39: in every state get_percentiles raises nothing on any histogram of
\* the store: the histogram has at least one bucket, the series of every
\* bucket is in the store, the call returns None or a dict, every bucket
\* diff it reads is >= 0, and for num_requests > 0 every configured p
\* selects a bucket with high_count > low_count.
C39_PercentilesNeverFail ==
    \A h \in DOMAIN histograms :
        /\ DOMAIN histograms[h].les # {}
        /\ \A le \in DOMAIN histograms[h].les :
               histograms[h].les[le] \in DOMAIN timeseries
        /\ get_percentiles(histograms[h], timeseries, latency_percentiles,
                           interval).kind \in {"none", "dict"}
        /\ \A i \in 1..Len(CountsOf(h).counts) :
               ~VIsNeg(CountsOf(h).counts[i][3])
        /\ (CountsOf(h).ok /\ CountsOf(h).counts[Len(CountsOf(h).counts)][3] # V(0)) =>
               \A p \in latency_percentiles : BucketSelected(CountsOf(h).counts, p)

(***************************************************************************)
(* C40  Top-N ordering                                                     *)
(***************************************************************************)
\* The value of an item of a top-N mapping with None read as zero
NullAsZero(item) == IF item[2].none THEN V(0) ELSE item[2].diff

\* C40: the mapping _dict_inserted_in_top_order returns has exactly the
\* items of its input (a None value stays None under its key), no key
\* twice, in an insertion order in which the values do not increase when
\* None is read as zero.
C40_TopOrder ==
    pq.kind = "top" =>
        /\ Len(pq.result) = Len(pq.d)
        /\ {pq.result[i] : i \in 1..Len(pq.result)} = {pq.d[i] : i \in 1..Len(pq.d)}
        /\ \A i \in 1..(Len(pq.result) - 1) :
               \/ NullAsZero(pq.result[i]).hi > NullAsZero(pq.result[i + 1]).hi
               \/ /\ NullAsZero(pq.result[i]).hi = NullAsZero(pq.result[i + 1]).hi
                  /\ NullAsZero(pq.result[i]).lo >= NullAsZero(pq.result[i + 1]).lo

\* a mapping of three zones was ordered whose None value came between a
\* positive count and a zero, and whose items changed places
C40_Witness ==
    /\ pq.kind = "top"
    /\ Len(pq.d) = 3
    /\ pq.result # pq.d
    /\ \E i \in 1..3 : pq.result[i][2].none
    /\ pq.result[1][2] = [none |-> FALSE, diff |-> V(7)]
    /\ pq.result[3][2] = [none |-> FALSE, diff |-> V(0)]

====
